------------------------ MODULE EscrowProgram_proofs ------------------------
(***************************************************************************)
(* Theorems about EscrowProgram, for every set of wallets, every pool      *)
(* bound, and every amount, fee, capacity and batch anybody can submit.    *)
(***************************************************************************)
EXTENDS EscrowProgram, FiniteSetTheorems, WellFoundedInduction, TLAPS

-----------------------------------------------------------------------------
(***************************************************************************)
(* Induction over the naturals and existence of functions defined by       *)
(* recursion, stated about sets and functions: no hypothesis or conclusion *)
(* takes an operator as a parameter, so the provers can use these facts    *)
(* about the program's loops and about sums.                               *)
(***************************************************************************)

Less == {p \in Nat \X Nat : p[1] < p[2]}

(* The order of the naturals is well founded (used by every loop lemma).   *)
LEMMA LessWellFounded == IsWellFoundedOn(Less, Nat)
  BY NatLessThanWellFounded DEF Less, OpToRel

(* A set of naturals that holds 0 and every successor holds them all: the  *)
(* form in which a loop invariant is proved for every iteration count.     *)
THEOREM NatSetInduction ==
  ASSUME NEW S \in SUBSET Nat, 0 \in S, \A n \in S : n + 1 \in S
  PROVE  S = Nat
<1>. DEFINE T == Nat \ S
<1>1. SUFFICES ASSUME T # {} PROVE FALSE
  OBVIOUS
<1>2. PICK x \in T : \A y \in T : ~ (<<y, x>> \in Less)
  <2>1. T \subseteq Nat
    OBVIOUS
  <2>. HIDE DEF T
  <2>2. QED
    BY <1>1, <2>1, LessWellFounded, WFMin
<1>3. x \in Nat /\ x # 0
  OBVIOUS
<1>4. x - 1 \in Nat /\ <<x - 1, x>> \in Less
  BY <1>3 DEF Less
<1>5. x - 1 \in S
  BY <1>2, <1>4
<1>6. (x - 1) + 1 \in S
  BY <1>5
<1>7. QED
  BY <1>3, <1>6

(* g[i] is the accumulator after the first i of the n iterations of a loop *)
(* that starts at c and whose body is step.                                *)
IsRun(g, c, n, step) == g[0] = c /\ \A i \in 1..n : g[i] = step[<<g[i-1], i>>]

(* A loop of n iterations whose body maps the accumulator set S into       *)
(* itself has a run: the function of its accumulator values exists.        *)
THEOREM RecursionExists ==
  ASSUME NEW S, NEW c \in S, NEW n \in Nat, NEW step \in [S \X (1..n) -> S]
  PROVE  \E g \in [0..n -> S] : IsRun(g, c, n, step)
<1>. DEFINE Run(g, k) == g[0] = c /\ \A i \in 1..k : g[i] = step[<<g[i-1], i>>]
            K == {k \in Nat : k <= n => \E g \in [0..k -> S] : Run(g, k)}
<1>1. 0 \in K
  <2>1. [i \in 0..0 |-> c] \in [0..0 -> S] /\ Run([i \in 0..0 |-> c], 0)
    OBVIOUS
  <2>2. QED
    BY <2>1
<1>2. ASSUME NEW k \in K PROVE k + 1 \in K
  <2>1. SUFFICES ASSUME k + 1 <= n
                 PROVE  \E g \in [0..(k+1) -> S] : Run(g, k + 1)
    OBVIOUS
  <2>2. PICK g \in [0..k -> S] : Run(g, k)
    BY <1>2, <2>1
  <2>3. k \in Nat /\ g[k] \in S /\ k + 1 \in 1..n
    BY <1>2, <2>1, <2>2
  <2>. DEFINE h == [i \in 0..(k+1) |-> IF i <= k THEN g[i] ELSE step[<<g[k], k + 1>>]]
  <2>4. h \in [0..(k+1) -> S]
    <3>1. step[<<g[k], k + 1>>] \in S
      BY <2>3
    <3>2. ASSUME NEW i \in 0..(k+1), i <= k PROVE g[i] \in S
      BY <2>3, <3>2
    <3>3. QED
      BY <3>1, <3>2
  <2>5. Run(h, k + 1)
    <3>0. h[0] = c
      BY <2>2, <2>3
    <3>1. SUFFICES ASSUME NEW i \in 1..(k+1) PROVE h[i] = step[<<h[i-1], i>>]
      BY <3>0
    <3>2. CASE i <= k
      <4>1. i \in 1..k /\ h[i] = g[i]
        BY <2>3, <3>2
      <4>2. h[i-1] = g[i-1]
        BY <2>3, <3>2
      <4>3. QED
        BY <2>2, <4>1, <4>2
    <3>3. CASE i = k + 1
      <4>1. h[i] = step[<<g[k], k + 1>>] /\ h[i-1] = g[k]
        BY <2>3, <3>3
      <4>2. QED
        BY <3>3, <4>1
    <3>4. QED
      BY <2>3, <3>2, <3>3
  <2>6. QED
    BY <2>4, <2>5
<1>3. K = Nat
  <2>1. K \in SUBSET Nat
    OBVIOUS
  <2>. HIDE DEF K
  <2>2. QED
    BY <1>1, <1>2, <2>1, NatSetInduction
<1>4. n \in K
  <2>. HIDE DEF K
  <2>1. QED
    BY <1>3
<1>5. n <= n
  OBVIOUS
<1>6. QED
  BY <1>4, <1>5 DEF IsRun

(* The element a sum over S takes out first.                               *)
Chosen(S) == CHOOSE p \in S : TRUE

(* Taking an element out of a finite set makes it smaller.                 *)
LEMMA TakeOne ==
  ASSUME NEW P, IsFiniteSet(P), NEW S \in SUBSET P, S # {}
  PROVE  /\ Chosen(S) \in S
         /\ S \ {Chosen(S)} \in SUBSET P
         /\ Cardinality(S) \in Nat /\ Cardinality(S \ {Chosen(S)}) = Cardinality(S) - 1
<1>1. Chosen(S) \in S
  BY DEF Chosen
<1>2. IsFiniteSet(S)
  BY FS_Subset
<1>3. QED
  BY <1>1, <1>2, FS_RemoveElement, FS_CardinalityType

(* Induction over the subsets of a finite set, one element taken out at a  *)
(* time, in the order in which a sum takes them.                           *)
THEOREM SubsetInduction ==
  ASSUME NEW P, IsFiniteSet(P), NEW T \in SUBSET SUBSET P, {} \in T,
         \A S \in SUBSET P : S # {} /\ S \ {Chosen(S)} \in T => S \in T
  PROVE  T = SUBSET P
<1>. DEFINE K == {k \in Nat : \A S \in SUBSET P : Cardinality(S) <= k => S \in T}
<1>1. 0 \in K
  <2>1. ASSUME NEW S \in SUBSET P, Cardinality(S) <= 0 PROVE S \in T
    <3>1. CASE S = {}
      BY <3>1
    <3>2. CASE S # {}
      <4>1. Cardinality(S) \in Nat /\ Cardinality(S) - 1 \in Nat
        <5>1. IsFiniteSet(S \ {Chosen(S)})
          BY FS_Subset
        <5>2. QED
          BY <3>2, <5>1, TakeOne, FS_CardinalityType
      <4>2. QED
        BY <2>1, <4>1
    <3>3. QED
      BY <3>1, <3>2
  <2>2. QED
    BY <2>1
<1>2. ASSUME NEW k \in K PROVE k + 1 \in K
  <2>1. ASSUME NEW S \in SUBSET P, Cardinality(S) <= k + 1, S # {} PROVE S \in T
    <3>1. Cardinality(S \ {Chosen(S)}) <= k
      BY <1>2, <2>1, TakeOne
    <3>2. S \ {Chosen(S)} \in T
      BY <3>1
    <3>3. QED
      BY <2>1, <3>2
  <2>2. QED
    BY <2>1
<1>3. K = Nat
  <2>1. K \in SUBSET Nat
    OBVIOUS
  <2>. HIDE DEF K
  <2>2. QED
    BY <1>1, <1>2, <2>1, NatSetInduction
<1>4. ASSUME NEW S \in SUBSET P PROVE S \in T
  <2>1. IsFiniteSet(S)
    BY FS_Subset
  <2>2. Cardinality(S) \in K
    BY <1>3, <2>1, FS_CardinalityType
  <2>3. QED
    BY <2>1, <2>2, FS_CardinalityType
<1>5. QED
  BY <1>4

(* F[S] is the sum of f over every subset S of P, one element at a time.   *)
IsSum(F, P, f) ==
    /\ F \in [SUBSET P -> Nat]
    /\ \A S \in SUBSET P : F[S] = IF S = {} THEN 0 ELSE f[Chosen(S)] + F[S \ {Chosen(S)}]

IsPointwiseSum(h, P, f, g) == \A p \in P : h[p] = f[p] + g[p]

IsPoint(f, P, q, d) == \A p \in P : f[p] = IF p = q THEN d ELSE 0

(* A sum over a finite set of naturals satisfies its defining recurrence.  *)
LEMMA SumUnfolds ==
  ASSUME NEW P, IsFiniteSet(P), NEW f \in [P -> Nat]
  PROVE  IsSum(PartialSum(f), P, f)
<1>. DEFINE D(k) == {S \in SUBSET P : Cardinality(S) <= k}
            Value(g, S) == IF S = {} THEN 0 ELSE f[Chosen(S)] + g[S \ {Chosen(S)}]
            K == {k \in Nat : \E g \in [D(k) -> Nat] : \A S \in D(k) : g[S] = Value(g, S)}
<1>1. ASSUME NEW k \in Nat, NEW g \in [D(k) -> Nat], NEW S \in SUBSET P,
             S # {} => S \ {Chosen(S)} \in D(k)
      PROVE  Value(g, S) \in Nat
  <2>1. CASE S = {}
    BY <2>1
  <2>2. CASE S # {}
    <3>1. f[Chosen(S)] \in Nat
      BY <2>2, TakeOne
    <3>2. g[S \ {Chosen(S)}] \in Nat
      BY <1>1, <2>2
    <3>3. QED
      BY <2>2, <3>1, <3>2
  <2>3. QED
    BY <2>1, <2>2
<1>2. ASSUME NEW k \in Nat, NEW S \in D(k+1), S # {} PROVE S \ {Chosen(S)} \in D(k)
  BY <1>2, TakeOne
<1>3. ASSUME NEW k \in Nat PROVE D(k) \subseteq D(k+1)
  <2>1. ASSUME NEW S \in D(k) PROVE S \in D(k+1)
    <3>1. Cardinality(S) \in Nat
      BY FS_Subset, FS_CardinalityType
    <3>2. QED
      BY <3>1
  <2>2. QED
    BY <2>1
<1>4. 0 \in K
  <2>1. ASSUME NEW S \in D(0) PROVE S = {}
    <3>1. IsFiniteSet(S) /\ Cardinality(S) <= 0
      BY FS_Subset
    <3>2. Cardinality(S) = 0
      BY <3>1, FS_CardinalityType
    <3>3. QED
      BY <3>1, <3>2, FS_EmptySet
  <2>. DEFINE g == [S \in D(0) |-> 0]
  <2>2. g \in [D(0) -> Nat]
    OBVIOUS
  <2>3. \A S \in D(0) : g[S] = Value(g, S)
    BY <2>1
  <2>. HIDE DEF D, Value, g
  <2>4. QED
    BY <2>2, <2>3
<1>5. ASSUME NEW k \in K PROVE k + 1 \in K
  <2>0. k \in Nat /\ k + 1 \in Nat
    BY <1>5
  <2>1. PICK g \in [D(k) -> Nat] : \A S \in D(k) : g[S] = Value(g, S)
    BY <1>5
  <2>. HIDE DEF D, K
  <2>. DEFINE h == [S \in D(k+1) |-> Value(g, S)]
  <2>2. h \in [D(k+1) -> Nat]
    <3>1. ASSUME NEW S \in D(k+1) PROVE Value(g, S) \in Nat
      <4>1. S \in SUBSET P
        BY DEF D
      <4>. HIDE DEF Value
      <4>2. QED
        BY <1>1, <1>2, <2>0, <4>1
    <3>. HIDE DEF Value
    <3>2. QED
      BY <3>1
  <2>3. ASSUME NEW S \in D(k) PROVE h[S] = g[S]
    BY <1>3, <2>0, <2>1
  <2>4. ASSUME NEW S \in D(k+1) PROVE h[S] = Value(h, S)
    <3>1. CASE S = {}
      BY <3>1
    <3>2. CASE S # {}
      <4>1. h[S \ {Chosen(S)}] = g[S \ {Chosen(S)}]
        BY <1>2, <2>0, <2>3, <3>2
      <4>. HIDE DEF h
      <4>2. h[S] = Value(g, S)
        BY DEF h
      <4>3. QED
        BY <3>2, <4>1, <4>2
    <3>3. QED
      BY <3>1, <3>2
  <2>. HIDE DEF Value, h
  <2>5. QED
    BY <2>0, <2>2, <2>4 DEF K
<1>6. K = Nat
  <2>1. K \in SUBSET Nat
    OBVIOUS
  <2>. HIDE DEF K
  <2>2. QED
    BY <1>4, <1>5, <2>1, NatSetInduction
<1>7. Cardinality(P) \in Nat
  BY FS_CardinalityType
<1>8. D(Cardinality(P)) = SUBSET P
  BY <1>7, FS_Subset, FS_CardinalityType
<1>9. PICK g \in [SUBSET P -> Nat] : \A S \in SUBSET P : g[S] = Value(g, S)
  <2>1. Cardinality(P) \in K
    BY <1>6, <1>7
  <2>2. \E g \in [D(Cardinality(P)) -> Nat] :
           \A S \in D(Cardinality(P)) : g[S] = Value(g, S)
    BY <2>1
  <2>. HIDE DEF D, Value
  <2>3. QED
    BY <1>8, <2>2
<1>10. g = [S \in SUBSET DOMAIN f |->
              IF S = {} THEN 0 ELSE f[CHOOSE p \in S : TRUE] + g[S \ {CHOOSE p \in S : TRUE}]]
  BY <1>9 DEF Chosen
<1>11. PartialSum(f) = [S \in SUBSET DOMAIN f |->
         IF S = {} THEN 0
         ELSE f[CHOOSE p \in S : TRUE] + PartialSum(f)[S \ {CHOOSE p \in S : TRUE}]]
  BY <1>10 DEF PartialSum
<1>. DEFINE F == PartialSum(f)
<1>12. /\ F = [S \in SUBSET P |-> F[S]]
       /\ \A S \in SUBSET P : F[S] = Value(F, S)
  BY <1>11 DEF Chosen
<1>. HIDE DEF F
<1>13. ASSUME NEW S \in SUBSET P PROVE F[S] \in Nat
  <2>. DEFINE T == {R \in SUBSET P : F[R] \in Nat}
  <2>1. {} \in T
    <3>1. {} \in SUBSET P /\ Value(F, {}) = 0
      OBVIOUS
    <3>. HIDE DEF Value
    <3>2. F[{}] = 0
      BY <1>12, <3>1
    <3>3. QED
      BY <3>1, <3>2
  <2>2. ASSUME NEW R \in SUBSET P, R # {}, R \ {Chosen(R)} \in T PROVE R \in T
    <3>1. f[Chosen(R)] \in Nat /\ F[R \ {Chosen(R)}] \in Nat
      <4>1. Chosen(R) \in P
        BY <2>2, TakeOne
      <4>2. QED
        BY <2>2, <4>1
    <3>2. F[R] = f[Chosen(R)] + F[R \ {Chosen(R)}]
      BY <1>12, <2>2
    <3>3. QED
      BY <3>1, <3>2
  <2>3. T \in SUBSET SUBSET P
    OBVIOUS
  <2>. HIDE DEF T
  <2>4. T = SUBSET P
    BY <2>1, <2>2, <2>3, SubsetInduction
  <2>5. QED
    BY <2>4 DEF T
<1>14. F \in [SUBSET P -> Nat]
  BY <1>12, <1>13
<1>15. QED
  BY <1>12, <1>14 DEF F, IsSum

(* Sums add up: what every payee has plus what every payee gets.           *)
LEMMA SumAdds ==
  ASSUME NEW P, IsFiniteSet(P), NEW f \in [P -> Nat], NEW g \in [P -> Nat],
         NEW h \in [P -> Nat], IsPointwiseSum(h, P, f, g)
  PROVE  SumOver(h) = SumOver(f) + SumOver(g)
<1>. DEFINE F == PartialSum(f)
            G == PartialSum(g)
            H == PartialSum(h)
            T == {S \in SUBSET P : H[S] = F[S] + G[S]}
<1>2. IsSum(F, P, f)
  BY SumUnfolds
<1>3. IsSum(G, P, g)
  BY SumUnfolds
<1>4. IsSum(H, P, h)
  BY SumUnfolds
<1>. HIDE DEF F, G, H
<1>. USE DEF IsSum, IsPointwiseSum
<1>5. {} \in T
  <2>1. {} \in SUBSET P
    OBVIOUS
  <2>2. F[{}] = 0 /\ G[{}] = 0 /\ H[{}] = 0
    BY <1>2, <1>3, <1>4, <2>1
  <2>3. QED
    BY <2>1, <2>2
<1>6. ASSUME NEW S \in SUBSET P, S # {}, S \ {Chosen(S)} \in T PROVE S \in T
  <2>1. Chosen(S) \in P /\ S \ {Chosen(S)} \in SUBSET P
    BY <1>6, TakeOne
  <2>2. H[S \ {Chosen(S)}] = F[S \ {Chosen(S)}] + G[S \ {Chosen(S)}]
    BY <1>6
  <2>3. /\ F[S \ {Chosen(S)}] \in Nat /\ G[S \ {Chosen(S)}] \in Nat
        /\ f[Chosen(S)] \in Nat /\ g[Chosen(S)] \in Nat
        /\ h[Chosen(S)] = f[Chosen(S)] + g[Chosen(S)]
    BY <1>2, <1>3, <2>1
  <2>4. /\ F[S] = f[Chosen(S)] + F[S \ {Chosen(S)}]
        /\ G[S] = g[Chosen(S)] + G[S \ {Chosen(S)}]
        /\ H[S] = h[Chosen(S)] + H[S \ {Chosen(S)}]
    BY <1>2, <1>3, <1>4, <1>6
  <2>5. H[S] = F[S] + G[S]
    BY <2>2, <2>3, <2>4
  <2>6. QED
    BY <2>5
<1>7. T = SUBSET P
  <2>1. T \in SUBSET SUBSET P
    OBVIOUS
  <2>. HIDE DEF T
  <2>2. QED
    BY <1>5, <1>6, <2>1, SubsetInduction
<1>8. H[P] = F[P] + G[P]
  BY <1>7
<1>9. QED
  BY <1>8 DEF SumOver, F, G, H

(* The sum of a function that is d at one point q and 0 elsewhere.         *)
LEMMA SumOfPoint ==
  ASSUME NEW P, IsFiniteSet(P), NEW q, NEW d \in Nat,
         NEW f \in [P -> Nat], IsPoint(f, P, q, d)
  PROVE  SumOver(f) = IF q \in P THEN d ELSE 0
<1>. DEFINE F == PartialSum(f)
            T == {S \in SUBSET P : F[S] = IF q \in S THEN d ELSE 0}
<1>2. IsSum(F, P, f)
  BY SumUnfolds
<1>. HIDE DEF F
<1>. USE DEF IsSum, IsPoint
<1>3. {} \in T
  <2>1. {} \in SUBSET P
    OBVIOUS
  <2>2. F[{}] = 0
    BY <1>2, <2>1
  <2>3. QED
    BY <2>1, <2>2
<1>4. ASSUME NEW S \in SUBSET P, S # {}, S \ {Chosen(S)} \in T PROVE S \in T
  <2>1. Chosen(S) \in S /\ S \ {Chosen(S)} \in SUBSET P
    BY <1>4, TakeOne
  <2>2. F[S] = f[Chosen(S)] + F[S \ {Chosen(S)}]
    BY <1>2, <1>4
  <2>3. F[S \ {Chosen(S)}] = IF q \in S \ {Chosen(S)} THEN d ELSE 0
    BY <1>4
  <2>4. F[S] = IF q \in S THEN d ELSE 0
    BY <2>1, <2>2, <2>3
  <2>5. QED
    BY <2>4
<1>5. T = SUBSET P
  <2>1. T \in SUBSET SUBSET P
    OBVIOUS
  <2>. HIDE DEF T
  <2>2. QED
    BY <1>3, <1>4, <2>1, SubsetInduction
<1>6. F[P] = IF q \in P THEN d ELSE 0
  BY <1>5
<1>7. QED
  BY <1>6 DEF SumOver, F

(* The sum of a function that is 0 everywhere.                             *)
LEMMA SumOfZero ==
  ASSUME NEW P, IsFiniteSet(P), NEW f \in [P -> Nat], \A p \in P : f[p] = 0
  PROVE  SumOver(f) = 0
<1>1. IsPoint(f, P, P, 0)
  BY DEF IsPoint
<1>2. SumOver(f) = IF P \in P THEN 0 ELSE 0
  BY <1>1, SumOfPoint
<1>3. QED
  BY <1>2

-----------------------------------------------------------------------------
(***************************************************************************)
(* The payout loop: whatever the batch, it moves at most the balance.      *)
(***************************************************************************)

(* The fields of a batch entry have the types the payout loop relies on.   *)
LEMMA EntryTypes ==
  ASSUME NEW batch \in Seq(Entry), NEW i \in 1..Len(batch)
  PROVE  batch[i].to \in Payees /\ batch[i].amount \in Nat
  <1>1. batch[i] \in Entry
    OBVIOUS
  <1>2. QED
    BY <1>1 DEF Entry

(* `distributed` satisfies its defining recurrence: the loop runs.         *)
LEMMA MovedUnfolds ==
  ASSUME NEW balance \in Nat, NEW batch \in Seq(Entry)
  PROVE  Moved(balance, batch) =
           [i \in 0..Len(batch) |->
              IF i = 0 THEN 0
              ELSE IF Skips(balance, Moved(balance, batch)[i-1], batch[i].amount)
                   THEN Moved(balance, batch)[i-1]
              ELSE Moved(balance, batch)[i-1] + batch[i].amount]
<1>. DEFINE n == Len(batch)
            Body(m, i) == IF Skips(balance, m, batch[i].amount) THEN m
                          ELSE m + batch[i].amount
            step == [p \in Nat \X (1..n) |-> Body(p[1], p[2])]
<1>1. n \in Nat
  OBVIOUS
<1>2. step \in [Nat \X (1..n) -> Nat]
  <2>1. ASSUME NEW p \in Nat \X (1..n) PROVE Body(p[1], p[2]) \in Nat
    <3>1. p[1] \in Nat /\ p[2] \in 1..n
      OBVIOUS
    <3>2. batch[p[2]].amount \in Nat
      BY <3>1, EntryTypes
    <3>3. QED
      BY <3>1, <3>2
  <2>2. QED
    BY <2>1
<1>3. PICK g \in [0..n -> Nat] : IsRun(g, 0, n, step)
  <2>1. 0 \in Nat
    OBVIOUS
  <2>. HIDE DEF step, n
  <2>2. QED
    BY <1>1, <1>2, <2>1, RecursionExists
<1>4. ASSUME NEW i \in 1..n PROVE g[i] = Body(g[i-1], i)
  <2>1. i - 1 \in 0..n
    BY <1>1
  <2>2. g[i-1] \in Nat
    BY <1>3, <2>1
  <2>3. g[i] = step[<<g[i-1], i>>]
    BY <1>3 DEF IsRun
  <2>4. step[<<g[i-1], i>>] = Body(g[i-1], i)
    BY <2>2
  <2>5. QED
    BY <2>3, <2>4
<1>5. ASSUME NEW i \in 0..n PROVE g[i] = IF i = 0 THEN 0 ELSE Body(g[i-1], i)
  <2>1. CASE i = 0
    BY <1>3, <2>1 DEF IsRun
  <2>2. CASE i # 0
    <3>1. i \in 1..n
      BY <1>1, <2>2
    <3>2. QED
      BY <1>4, <2>2, <3>1
  <2>3. QED
    BY <2>1, <2>2
<1>6. g = [i \in 0..n |-> IF i = 0 THEN 0 ELSE Body(g[i-1], i)]
  <2>. HIDE DEF Body
  <2>1. QED
    BY <1>3, <1>5
<1>7. QED
  BY <1>6 DEF Moved

(* The running total of the payout loop never leaves 0..balance:           *)
(* `distributed` cannot overdraw what was read before the loop.            *)
LEMMA MovedBounded ==
  ASSUME NEW balance \in Nat, NEW batch \in Seq(Entry)
  PROVE  \A i \in 0..Len(batch) : Moved(balance, batch)[i] \in 0..balance
<1>. DEFINE n == Len(batch)
            moved == Moved(balance, batch)
            K == {k \in Nat : k <= n => moved[k] \in 0..balance}
<1>1. moved = [i \in 0..n |-> IF i = 0 THEN 0
                              ELSE IF Skips(balance, moved[i-1], batch[i].amount) THEN moved[i-1]
                              ELSE moved[i-1] + batch[i].amount]
  BY MovedUnfolds
<1>. HIDE DEF moved
<1>2. 0 \in K
  BY <1>1
<1>3. ASSUME NEW k \in K PROVE k + 1 \in K
  <2>1. SUFFICES ASSUME k + 1 <= n PROVE moved[k+1] \in 0..balance
    OBVIOUS
  <2>2. moved[k] \in 0..balance /\ k + 1 \in 1..n
    BY <1>3, <2>1
  <2>3. batch[k+1].amount \in Nat
    BY <2>2, EntryTypes
  <2>4. moved[k+1] = IF Skips(balance, moved[k], batch[k+1].amount) THEN moved[k]
                     ELSE moved[k] + batch[k+1].amount
    <3>1. k + 1 \in 0..n /\ k + 1 # 0 /\ (k + 1) - 1 = k
      BY <1>3, <2>1
    <3>2. QED
      BY <1>1, <3>1
  <2>5. QED
    BY <2>2, <2>3, <2>4 DEF Skips
<1>4. K = Nat
  <2>1. K \in SUBSET Nat
    OBVIOUS
  <2>. HIDE DEF K
  <2>2. QED
    BY <1>2, <1>3, <2>1, NatSetInduction
<1>5. QED
  BY <1>4 DEF moved

(* `distributed` never decreases from one entry to the next.               *)
LEMMA MovedGrows ==
  ASSUME NEW balance \in Nat, NEW batch \in Seq(Entry), NEW i \in 1..Len(batch)
  PROVE  Moved(balance, batch)[i] - Moved(balance, batch)[i-1] \in Nat
<1>. DEFINE moved == Moved(balance, batch)
<1>1. moved[i] = IF Skips(balance, moved[i-1], batch[i].amount) THEN moved[i-1]
                 ELSE moved[i-1] + batch[i].amount
  BY MovedUnfolds
<1>2. moved[i-1] \in 0..balance
  BY MovedBounded
<1>3. batch[i].amount \in Nat
  BY EntryTypes
<1>. HIDE DEF moved
<1>4. moved[i] - moved[i-1] \in Nat
  BY <1>1, <1>2, <1>3
<1>5. QED
  BY <1>4 DEF moved

(* The whole loop moves at most the balance it read before it started.     *)
LEMMA TotalMovedBounded ==
  ASSUME NEW balance \in Nat, NEW batch \in Seq(Entry)
  PROVE  TotalMoved(balance, batch) \in 0..balance
  BY MovedBounded DEF TotalMoved

(* What a payee has been sent satisfies its defining recurrence.           *)
LEMMA ReceivedUnfolds ==
  ASSUME NEW balance \in Nat, NEW batch \in Seq(Entry), NEW payee
  PROVE  /\ Received(balance, batch, payee)[0] = 0
         /\ \A i \in 1..Len(batch) :
              Received(balance, batch, payee)[i] =
                Received(balance, batch, payee)[i-1]
                  + (IF batch[i].to = payee
                     THEN Moved(balance, batch)[i] - Moved(balance, batch)[i-1] ELSE 0)
<1>. DEFINE n == Len(batch)
            moved == Moved(balance, batch)
            Share(i) == IF batch[i].to = payee THEN moved[i] - moved[i-1] ELSE 0
            step == [p \in Nat \X (1..n) |-> p[1] + Share(p[2])]
<1>1. n \in Nat
  OBVIOUS
<1>2. ASSUME NEW i \in 1..n PROVE Share(i) \in Nat
  BY MovedGrows
<1>3. step \in [Nat \X (1..n) -> Nat]
  <2>. HIDE DEF Share
  <2>1. QED
    BY <1>2
<1>4. PICK g \in [0..n -> Nat] : IsRun(g, 0, n, step)
  <2>1. 0 \in Nat
    OBVIOUS
  <2>. HIDE DEF step, n
  <2>2. QED
    BY <1>1, <1>3, <2>1, RecursionExists
<1>. HIDE DEF Share
<1>5. ASSUME NEW i \in 1..n PROVE g[i] = g[i-1] + Share(i)
  <2>1. i - 1 \in 0..n
    BY <1>1
  <2>2. g[i-1] \in Nat
    BY <1>4, <2>1
  <2>3. g[i] = step[<<g[i-1], i>>]
    BY <1>4 DEF IsRun
  <2>4. QED
    BY <2>2, <2>3
<1>6. ASSUME NEW i \in 0..n PROVE g[i] = IF i = 0 THEN 0 ELSE g[i-1] + Share(i)
  <2>1. CASE i = 0
    BY <1>4, <2>1 DEF IsRun
  <2>2. CASE i # 0
    <3>1. i \in 1..n
      BY <1>1, <2>2
    <3>2. QED
      BY <1>5, <2>2, <3>1
  <2>3. QED
    BY <2>1, <2>2
<1>7. g = [i \in 0..n |-> IF i = 0 THEN 0 ELSE g[i-1] + Share(i)]
  BY <1>4, <1>6
<1>8. Received(balance, batch, payee) =
        [i \in 0..n |-> IF i = 0 THEN 0 ELSE Received(balance, batch, payee)[i-1] + Share(i)]
  BY <1>7 DEF Received, Share
<1>9. QED
  BY <1>1, <1>8 DEF Share

(* At any point of the loop a payee has been sent at most what it moved.   *)
LEMMA ReceivedBounded ==
  ASSUME NEW balance \in Nat, NEW batch \in Seq(Entry), NEW payee
  PROVE  \A i \in 0..Len(batch) :
            Received(balance, batch, payee)[i] \in 0..Moved(balance, batch)[i]
<1>. DEFINE n == Len(batch)
            moved == Moved(balance, batch)
            received == Received(balance, batch, payee)
            K == {k \in Nat : k <= n => received[k] \in 0..moved[k]}
<1>1. ASSUME NEW i \in 0..n PROVE moved[i] \in Nat
  BY MovedBounded
<1>2. ASSUME NEW i \in 1..n PROVE moved[i] - moved[i-1] \in Nat
  BY MovedGrows
<1>3. ASSUME NEW i \in 1..n
      PROVE  received[i] = received[i-1]
                             + (IF batch[i].to = payee THEN moved[i] - moved[i-1] ELSE 0)
  BY ReceivedUnfolds
<1>4. received[0] = 0
  BY ReceivedUnfolds
<1>. HIDE DEF moved, received
<1>5. n \in Nat
  OBVIOUS
<1>6. 0 \in K
  BY <1>1, <1>4, <1>5
<1>7. ASSUME NEW k \in K PROVE k + 1 \in K
  <2>1. SUFFICES ASSUME k + 1 <= n PROVE received[k+1] \in 0..moved[k+1]
    OBVIOUS
  <2>2. received[k] \in 0..moved[k] /\ k \in 0..n /\ k + 1 \in 1..n /\ (k + 1) - 1 = k
    BY <1>5, <1>7, <2>1
  <2>3. moved[k] \in Nat /\ moved[k+1] - moved[k] \in Nat /\ moved[k+1] \in Nat
    <3>1. k + 1 \in 0..n
      BY <2>2
    <3>2. QED
      BY <1>1, <1>2, <2>2, <3>1
  <2>4. received[k+1] = received[k] + (IF batch[k+1].to = payee THEN moved[k+1] - moved[k] ELSE 0)
    BY <1>3, <2>2
  <2>5. QED
    BY <2>2, <2>3, <2>4
<1>8. K = Nat
  <2>1. K \in SUBSET Nat
    OBVIOUS
  <2>. HIDE DEF K
  <2>2. QED
    BY <1>6, <1>7, <2>1, NatSetInduction
<1>9. QED
  BY <1>8 DEF moved, received

(* A payee is sent at most what the loop moves.                            *)
LEMMA CreditBounded ==
  ASSUME NEW balance \in Nat, NEW batch \in Seq(Entry), NEW payee
  PROVE  Credit(balance, batch, payee) \in 0..TotalMoved(balance, batch)
<1>1. Len(batch) \in 0..Len(batch)
  OBVIOUS
<1>2. QED
  BY <1>1, ReceivedBounded DEF Credit, TotalMoved

(* What a batch credits to all payees together is what it moves, whatever  *)
(* it skips and however often a wallet appears in it.                      *)
LEMMA CreditsAddUp ==
  ASSUME NEW balance \in Nat, NEW batch \in Seq(Entry)
  PROVE  SumOver([p \in Payees |-> Credit(balance, batch, p)]) = TotalMoved(balance, batch)
<1>. DEFINE n == Len(batch)
            moved == Moved(balance, batch)
            received(p) == Received(balance, batch, p)
            sent(i) == [p \in Payees |-> received(p)[i]]
            K == {k \in Nat : k <= n => SumOver(sent(k)) = moved[k]}
<1>1. IsFiniteSet(Payees)
  BY WalletsAssumption, FS_AddElement DEF Payees
<1>2. moved[0] = 0 /\ \A i \in 1..n : moved[i] - moved[i-1] \in Nat
  BY MovedUnfolds, MovedGrows
<1>3. ASSUME NEW i \in 0..n PROVE moved[i] \in Nat
  BY MovedBounded
<1>4. ASSUME NEW p, NEW i \in 1..n
      PROVE  received(p)[i] = received(p)[i-1]
                                + (IF batch[i].to = p THEN moved[i] - moved[i-1] ELSE 0)
  BY ReceivedUnfolds
<1>5. ASSUME NEW p PROVE received(p)[0] = 0
  BY ReceivedUnfolds
<1>6. ASSUME NEW p, NEW i \in 0..n PROVE received(p)[i] \in Nat
  BY ReceivedBounded
<1>7. ASSUME NEW i \in 1..n PROVE batch[i].to \in Payees
  BY EntryTypes
<1>8. n \in Nat
  OBVIOUS
<1>. HIDE DEF moved, received, n
<1>9. 0 \in K
  <2>1. sent(0) \in [Payees -> Nat] /\ \A p \in Payees : sent(0)[p] = 0
    BY <1>5
  <2>. HIDE DEF sent
  <2>2. SumOver(sent(0)) = 0
    BY <1>1, <2>1, SumOfZero
  <2>3. QED
    BY <1>2, <2>2
<1>10. ASSUME NEW k \in K PROVE k + 1 \in K
  <2>1. SUFFICES ASSUME k + 1 <= n PROVE SumOver(sent(k+1)) = moved[k+1]
    OBVIOUS
  <2>2. k \in 0..n /\ k + 1 \in 1..n /\ (k + 1) - 1 = k
    BY <1>8, <1>10, <2>1
  <2>. DEFINE d == moved[k+1] - moved[k]
              q == batch[k+1].to
              step == [p \in Payees |-> IF p = q THEN d ELSE 0]
  <2>3. d \in Nat /\ q \in Payees
    BY <1>2, <1>7, <2>2
  <2>4. ASSUME NEW p \in Payees PROVE received(p)[k+1] = sent(k)[p] + step[p]
    <3>1. received(p)[k+1] = received(p)[k] + (IF q = p THEN d ELSE 0)
      BY <1>4, <2>2
    <3>2. sent(k)[p] = received(p)[k]
      OBVIOUS
    <3>3. step[p] = IF q = p THEN d ELSE 0
      OBVIOUS
    <3>4. QED
      BY <3>1, <3>2, <3>3
  <2>5. sent(k) \in [Payees -> Nat] /\ step \in [Payees -> Nat]
    BY <1>6, <2>2, <2>3
  <2>6. SumOver(step) = d
    <3>. HIDE DEF d, q
    <3>1. IsPoint(step, Payees, q, d)
      BY DEF IsPoint
    <3>. HIDE DEF step
    <3>2. SumOver(step) = IF q \in Payees THEN d ELSE 0
      BY <1>1, <2>3, <2>5, <3>1, SumOfPoint
    <3>3. QED
      BY <2>3, <3>2
  <2>7. sent(k+1) \in [Payees -> Nat] /\ IsPointwiseSum(sent(k+1), Payees, sent(k), step)
    <3>1. ASSUME NEW p \in Payees
          PROVE  sent(k+1)[p] = received(p)[k+1] /\ received(p)[k+1] \in Nat
      <4>1. k + 1 \in 0..n
        BY <2>2
      <4>2. QED
        BY <1>6, <4>1
    <3>2. sent(k+1) \in [Payees -> Nat]
      BY <3>1
    <3>. HIDE DEF sent, step
    <3>3. QED
      BY <2>4, <3>1, <3>2 DEF IsPointwiseSum
  <2>8. SumOver(sent(k)) = moved[k]
    BY <1>10, <2>2
  <2>. HIDE DEF sent, step
  <2>9. SumOver(sent(k+1)) = SumOver(sent(k)) + SumOver(step)
    BY <1>1, <2>5, <2>7, SumAdds
  <2>10. moved[k] \in Nat /\ moved[k+1] \in Nat
    <3>1. k + 1 \in 0..n
      BY <2>2
    <3>2. QED
      BY <1>3, <2>2, <3>1
  <2>11. QED
    BY <2>6, <2>8, <2>9, <2>10 DEF d
<1>11. K = Nat
  <2>1. K \in SUBSET Nat
    OBVIOUS
  <2>. HIDE DEF K
  <2>2. QED
    BY <1>9, <1>10, <2>1, NatSetInduction
<1>12. SumOver(sent(n)) = moved[n]
  <2>1. n \in K
    BY <1>8, <1>11
  <2>2. QED
    BY <1>8, <2>1
<1>13. QED
  BY <1>12 DEF Credit, TotalMoved, moved, received, n

(* A payee none of whose entries is transferred is sent nothing.           *)
LEMMA NoCreditWithoutTransfer ==
  ASSUME NEW balance \in Nat, NEW batch \in Seq(Entry), NEW payee,
         \A i \in Transferred(balance, batch) : batch[i].to # payee
  PROVE  Credit(balance, batch, payee) = 0
<1>. DEFINE n == Len(batch)
            moved == Moved(balance, batch)
            received == Received(balance, batch, payee)
            K == {k \in Nat : k <= n => received[k] = 0}
<1>1. ASSUME NEW i \in 1..n
      PROVE  received[i] = received[i-1]
                             + (IF batch[i].to = payee THEN moved[i] - moved[i-1] ELSE 0)
  BY ReceivedUnfolds
<1>2. received[0] = 0
  BY ReceivedUnfolds
<1>3. ASSUME NEW i \in 1..n, batch[i].to = payee PROVE moved[i] - moved[i-1] = 0
  <2>1. Skips(balance, moved[i-1], batch[i].amount)
    BY <1>3 DEF Transferred
  <2>2. moved[i] = moved[i-1]
    BY <2>1, MovedUnfolds
  <2>3. moved[i-1] \in Nat
    BY MovedBounded
  <2>. HIDE DEF moved
  <2>4. QED
    BY <2>2, <2>3
<1>. HIDE DEF moved, received
<1>4. n \in Nat
  OBVIOUS
<1>5. 0 \in K
  BY <1>2
<1>6. ASSUME NEW k \in K PROVE k + 1 \in K
  <2>1. SUFFICES ASSUME k + 1 <= n PROVE received[k+1] = 0
    OBVIOUS
  <2>2. received[k] = 0 /\ k + 1 \in 1..n /\ (k + 1) - 1 = k
    BY <1>4, <1>6, <2>1
  <2>3. received[k+1] = received[k] + (IF batch[k+1].to = payee THEN moved[k+1] - moved[k] ELSE 0)
    BY <1>1, <2>2
  <2>4. batch[k+1].to = payee => moved[k+1] - moved[k] = 0
    BY <1>3, <2>2
  <2>5. QED
    BY <2>2, <2>3, <2>4
<1>7. K = Nat
  <2>1. K \in SUBSET Nat
    OBVIOUS
  <2>. HIDE DEF K
  <2>2. QED
    BY <1>5, <1>6, <2>1, NatSetInduction
<1>8. received[n] = 0
  BY <1>4, <1>7
<1>9. QED
  BY <1>8 DEF Credit, received

-----------------------------------------------------------------------------
(***************************************************************************)
(* Inductive is an invariant.                                              *)
(***************************************************************************)

(* A survey that does not exist yet satisfies the invariant.               *)
LEMMA InitInductive == Init => Inductive
<1>. SUFFICES ASSUME Init PROVE Inductive
  OBVIOUS
<1>1. TypeOK
  <2>1. /\ status \in {"absent", "active", "inactive"} /\ currency \in Currency
        /\ tokenVaultOpen \in BOOLEAN
    BY DEF Init, Currency
  <2>2. paid \in [Payees -> Nat]
    BY DEF Init
  <2>3. QED
    BY <2>1, <2>2 DEF Init, TypeOK
<1>2. Solvency /\ AbsentUntouched /\ PayoutDeactivates /\ SweptEmpty /\ SplNeverPaysCreator
  BY DEF Init, Solvency, AbsentUntouched, PayoutDeactivates, SweptEmpty, SplNeverPaysCreator
<1>3. CapacityRespected
  BY FS_EmptySet DEF Init, CapacityRespected
<1>4. QED
  BY <1>1, <1>2, <1>3 DEF Inductive

(* initialize_survey and initialize_survey_spl preserve the invariant.     *)
LEMMA InitializeStep ==
  ASSUME Inductive, NEW pool \in Pools, NEW capacity \in Capacities,
         InitializeSurvey(pool, capacity) \/ InitializeSurveySpl(pool, capacity)
  PROVE  Inductive'
<1>. USE DEF OpenSurvey, InitializeSurvey, InitializeSurveySpl
<1>1. pool \in Nat /\ capacity \in Nat /\ RentExempt \in Nat
  BY InputsAssumption, BoundsAssumption
<1>2. /\ TypeOK /\ Solvency
      /\ participants = {} /\ paid = [p \in Payees |-> 0]
      /\ distributed = 0 /\ swept = 0
  BY DEF Inductive, AbsentUntouched, PayoutDeactivates, TypeOK
<1>3. TypeOK'
  <2>1. vault' \in Int /\ deposited' \in Nat /\ responseCount' \in Nat /\ maxResponses' \in Nat
    BY <1>1, <1>2 DEF TypeOK
  <2>2. currency' \in Currency /\ status' \in {"absent", "active", "inactive"}
    BY DEF Currency
  <2>3. tokenVaultOpen' \in BOOLEAN
    <3>1. tokenVaultOpen' = tokenVaultOpen \/ tokenVaultOpen' = TRUE
      OBVIOUS
    <3>2. QED
      BY <1>2, <3>1 DEF TypeOK
  <2>4. QED
    BY <1>2, <2>1, <2>2, <2>3 DEF TypeOK
<1>4. Solvency'
  BY <1>1, <1>2 DEF TypeOK, Solvency
<1>5. CapacityRespected'
  BY <1>1, <1>2, FS_EmptySet DEF CapacityRespected
<1>6. PayoutDeactivates' /\ SweptEmpty' /\ AbsentUntouched'
  BY <1>2 DEF PayoutDeactivates, SweptEmpty, AbsentUntouched
<1>7. SplNeverPaysCreator'
  BY <1>2 DEF SplNeverPaysCreator, Payees
<1>8. QED
  BY <1>3, <1>4, <1>5, <1>6, <1>7 DEF Inductive

(* register_participant preserves the invariant: its PDA `init` keeps      *)
(* response_count equal to the number of entries.                          *)
LEMMA RegisterStep ==
  ASSUME Inductive, NEW w \in Payees, RegisterParticipant(w)
  PROVE  Inductive'
<1>. USE DEF RegisterParticipant, moneyVars
<1>1. IsFiniteSet(participants)
  <2>1. IsFiniteSet(Payees)
    BY WalletsAssumption, FS_AddElement DEF Payees
  <2>2. QED
    BY <2>1, FS_Subset DEF Inductive, TypeOK
<1>2. TypeOK'
  BY DEF Inductive, TypeOK
<1>3. CapacityRespected'
  <2>1. Cardinality(participants \cup {w}) = Cardinality(participants) + 1
    BY <1>1, FS_AddElement
  <2>2. QED
    BY <2>1 DEF Inductive, TypeOK, CapacityRespected
<1>4. Solvency' /\ PayoutDeactivates' /\ SweptEmpty' /\ AbsentUntouched' /\ SplNeverPaysCreator'
  BY DEF Inductive, Solvency, PayoutDeactivates, SweptEmpty, AbsentUntouched, SplNeverPaysCreator
<1>5. QED
  BY <1>2, <1>3, <1>4 DEF Inductive

(* close_survey preserves the invariant.                                   *)
LEMMA CloseSurveyStep ==
  ASSUME Inductive, NEW signer, CloseSurvey(signer)
  PROVE  Inductive'
<1>. USE DEF CloseSurvey, moneyVars, Inductive
<1>1. TypeOK'
  BY DEF TypeOK
<1>2. Solvency' /\ CapacityRespected' /\ PayoutDeactivates' /\ SweptEmpty'
        /\ AbsentUntouched' /\ SplNeverPaysCreator'
  BY DEF Solvency, CapacityRespected, PayoutDeactivates, SweptEmpty, AbsentUntouched,
         SplNeverPaysCreator
<1>3. QED
  BY <1>1, <1>2

(* A distribution from a balance of at most the vault keeps the invariant, *)
(* provided an SPL survey credits the creator nothing.                     *)
LEMMA PayBatchStep ==
  ASSUME Inductive, NEW balance \in 0..vault, NEW batch \in Batches,
         status # "absent",
         currency = "SPL" => Credit(balance, batch, Creator) = 0,
         PayBatch(balance, batch)
  PROVE  Inductive'
<1>1. batch \in Seq(Entry) /\ balance \in Nat
  BY InputsAssumption DEF Inductive, TypeOK
<1>. DEFINE total == TotalMoved(balance, batch)
<1>2. total \in 0..balance
  BY <1>1, TotalMovedBounded
<1>3. ASSUME NEW p PROVE Credit(balance, batch, p) \in Nat
  <2>1. Credit(balance, batch, p) \in 0..total
    BY <1>1, CreditBounded
  <2>2. QED
    BY <1>2, <2>1
<1>4. /\ vault' = vault - total /\ distributed' = distributed + total
      /\ paid' = [p \in Payees |-> paid[p] + Credit(balance, batch, p)]
      /\ status' = "inactive"
      /\ UNCHANGED <<currency, maxResponses, responseCount, participants,
                     tokenVaultOpen, deposited, fees, swept>>
  BY DEF PayBatch
<1>. HIDE DEF total
<1>5. TypeOK'
  <2>1. paid' \in [Payees -> Nat]
    <3>1. ASSUME NEW p \in Payees PROVE paid[p] + Credit(balance, batch, p) \in Nat
      BY <1>3 DEF Inductive, TypeOK
    <3>2. QED
      BY <1>4, <3>1
  <2>2. vault' \in Int /\ distributed' \in Nat
    BY <1>2, <1>4 DEF Inductive, TypeOK
  <2>3. QED
    BY <1>4, <2>1, <2>2 DEF Inductive, TypeOK
<1>6. Solvency'
  BY <1>2, <1>4 DEF Inductive, TypeOK, Solvency
<1>7. SweptEmpty'
  <2>1. ASSUME swept > 0 PROVE vault' = 0
    <3>1. vault = 0
      BY <2>1 DEF Inductive, SweptEmpty
    <3>2. QED
      BY <1>2, <1>4, <3>1
  <2>2. QED
    BY <1>4, <2>1 DEF Inductive, SweptEmpty
<1>8. SplNeverPaysCreator'
  <2>1. ASSUME currency = "SPL" PROVE paid'[Creator] = 0
    <3>1. paid[Creator] = 0 /\ Credit(balance, batch, Creator) = 0 /\ Creator \in Payees
      BY <2>1 DEF Inductive, SplNeverPaysCreator, Payees
    <3>2. QED
      BY <1>4, <3>1
  <2>2. QED
    BY <1>4, <2>1 DEF SplNeverPaysCreator
<1>9. CapacityRespected' /\ PayoutDeactivates' /\ AbsentUntouched'
  BY <1>4 DEF Inductive, CapacityRespected, PayoutDeactivates, AbsentUntouched
<1>10. QED
  BY <1>5, <1>6, <1>7, <1>8, <1>9 DEF Inductive

(* distribute_rewards preserves the invariant.                             *)
LEMMA DistributeRewardsStep ==
  ASSUME Inductive, NEW signer, NEW batch \in Batches, DistributeRewards(signer, batch)
  PROVE  Inductive'
<1>1. LamportVault \in 0..vault /\ batch \in Seq(Entry)
  BY InputsAssumption DEF LamportVault, Inductive, TypeOK, Solvency
<1>2. ASSUME currency = "SPL" PROVE Credit(LamportVault, batch, Creator) = 0
  <2>1. LamportVault = 0
    BY <1>2 DEF LamportVault
  <2>2. TotalMoved(0, batch) = 0
    BY <1>1, TotalMovedBounded
  <2>3. Credit(0, batch, Creator) \in 0..TotalMoved(0, batch)
    BY <1>1, CreditBounded
  <2>4. QED
    BY <2>1, <2>2, <2>3
<1>3. status # "absent" /\ PayBatch(LamportVault, batch)
  BY DEF DistributeRewards, CanDistribute
<1>4. QED
  BY <1>1, <1>2, <1>3, PayBatchStep

(* distribute_rewards_spl preserves the invariant, and pays nothing to the *)
(* creator.                                                                *)
LEMMA DistributeRewardsSplStep ==
  ASSUME Inductive, NEW signer, NEW batch \in Batches, DistributeRewardsSpl(signer, batch)
  PROVE  Inductive'
<1>1. vault \in 0..vault /\ vault \in Nat /\ batch \in Seq(Entry)
  BY InputsAssumption DEF Inductive, TypeOK, Solvency
<1>2. Credit(vault, batch, Creator) = 0
  <2>1. \A i \in Transferred(vault, batch) : batch[i].to # Creator
    BY DEF DistributeRewardsSpl, CanDistributeSpl
  <2>2. QED
    BY <1>1, <2>1, NoCreditWithoutTransfer
<1>3. status # "absent" /\ PayBatch(vault, batch)
  BY DEF DistributeRewardsSpl, CanDistributeSpl
<1>4. QED
  BY <1>1, <1>2, <1>3, PayBatchStep

(* collect_fee and collect_fee_spl preserve the invariant.                 *)
LEMMA CollectFeeStep ==
  ASSUME Inductive, NEW signer, NEW fee \in Fees,
         CollectFee(signer, fee) \/ CollectFeeSpl(signer, fee)
  PROVE  Inductive'
<1>1. /\ fee \in Nat /\ fee > 0 /\ fee <= vault /\ TakeFee(fee) /\ vault \in Int
  BY InputsAssumption DEF CollectFee, CollectFeeSpl, LamportVault, Inductive, TypeOK
<1>. USE <1>1 DEF TakeFee, surveyVars
<1>2. TypeOK' /\ Solvency'
  BY DEF Inductive, TypeOK, Solvency
<1>3. SweptEmpty'
  BY DEF Inductive, SweptEmpty
<1>4. CapacityRespected' /\ PayoutDeactivates' /\ AbsentUntouched' /\ SplNeverPaysCreator'
  BY DEF Inductive, CapacityRespected, PayoutDeactivates, AbsentUntouched, SplNeverPaysCreator
<1>5. QED
  BY <1>2, <1>3, <1>4 DEF Inductive

(* close_escrow and close_escrow_spl preserve the invariant.               *)
LEMMA CloseEscrowStep ==
  ASSUME Inductive, NEW signer, CloseEscrow(signer) \/ CloseEscrowSpl(signer)
  PROVE  Inductive'
<1>1. /\ status = "inactive" /\ Sweep
      /\ tokenVaultOpen' \in BOOLEAN
      /\ currency = "SPL" => ~tokenVaultOpen'
  <2>1. CASE CloseEscrow(signer)
    <3>1. currency # "SPL"
      BY <2>1 DEF CloseEscrow, LamportVault
    <3>2. status = "inactive" /\ Sweep /\ tokenVaultOpen' \in BOOLEAN
      BY <2>1 DEF CloseEscrow, Inductive, TypeOK
    <3>3. QED
      BY <3>1, <3>2
  <2>2. CASE CloseEscrowSpl(signer)
    BY <2>2 DEF CloseEscrowSpl
  <2>3. QED
    BY <2>1, <2>2
<1>. USE <1>1 DEF Sweep, surveyVars
<1>2. TypeOK' /\ Solvency'
  BY DEF Inductive, TypeOK, Solvency
<1>3. SweptEmpty' /\ PayoutDeactivates'
  BY DEF Inductive, SweptEmpty, PayoutDeactivates
<1>4. CapacityRespected' /\ AbsentUntouched' /\ SplNeverPaysCreator'
  BY DEF Inductive, CapacityRespected, AbsentUntouched, SplNeverPaysCreator
<1>5. QED
  BY <1>2, <1>3, <1>4 DEF Inductive

(* Every instruction of the program, and stuttering, preserves the         *)
(* invariant.                                                              *)
LEMMA StepInductive == Inductive /\ [Next]_vars => Inductive'
<1>. SUFFICES ASSUME Inductive, [Next]_vars PROVE Inductive'
  OBVIOUS
<1>1. CASE UNCHANGED vars
  BY <1>1 DEF vars, surveyVars, moneyVars, Inductive, TypeOK, Solvency, CapacityRespected,
              AbsentUntouched, PayoutDeactivates, SweptEmpty, SplNeverPaysCreator
<1>2. CASE Next
  BY <1>2, InitializeStep, RegisterStep, CloseSurveyStep, CloseEscrowStep,
     DistributeRewardsStep, DistributeRewardsSplStep, CollectFeeStep DEF Next
<1>3. QED
  BY <1>1, <1>2

(* The invariant holds in every state of every survey, for every set of    *)
(* wallets, every bound on pools and every batch.                          *)
THEOREM InductiveInvariant == Spec => []Inductive
  BY InitInductive, StepInductive, PTL DEF Spec

-----------------------------------------------------------------------------
(***************************************************************************)
(* What follows for every survey.                                          *)
(***************************************************************************)

(* Every account and ledger keeps its type.                                *)
THEOREM TypeCorrect == Spec => []TypeOK
<1>1. Inductive => TypeOK
  BY DEF Inductive
<1>2. QED
  BY <1>1, InductiveInvariant, PTL

(* The vault is never overdrawn and no unit is lost or paid out twice,     *)
(* whatever batches, fees and sweeps are submitted in whatever order.      *)
THEOREM SolvencyHolds == Spec => []Solvency
<1>1. Inductive => Solvency
  BY DEF Inductive
<1>2. QED
  BY <1>1, InductiveInvariant, PTL

(* A survey never counts more participants than max_responses, and counts  *)
(* each wallet once.                                                       *)
THEOREM CapacityHolds == Spec => []CapacityRespected
<1>1. Inductive => CapacityRespected
  BY DEF Inductive
<1>2. QED
  BY <1>1, InductiveInvariant, PTL

(* No batch makes an SPL survey pay its own creator.                       *)
THEOREM CreatorNeverPaidInTokens == Spec => []SplNeverPaysCreator
<1>1. Inductive => SplNeverPaysCreator
  BY DEF Inductive
<1>2. QED
  BY <1>1, InductiveInvariant, PTL

(* Nobody joins, and nothing reactivates, a survey that has paid anything. *)
THEOREM FrozenHolds == Spec => FrozenAfterPayout
<1>. DEFINE A == distributed + swept > 0 => /\ participants' = participants
                                           /\ status' = status /\ status = "inactive"
<1>1. ASSUME Inductive, [Next]_vars PROVE [A]_vars
  <2>1. SUFFICES ASSUME distributed + swept > 0, Next
                 PROVE  participants' = participants /\ status' = status /\ status = "inactive"
    BY <1>1
  <2>2. status = "inactive"
    BY <1>1, <2>1 DEF Inductive, PayoutDeactivates
  <2>3. QED
    BY <2>1, <2>2 DEF Next, OpenSurvey, InitializeSurvey, InitializeSurveySpl,
       RegisterParticipant, CloseSurvey, PayBatch, DistributeRewards, DistributeRewardsSpl,
       TakeFee, CollectFee, CollectFeeSpl, Sweep, CloseEscrow, CloseEscrowSpl, surveyVars
<1>2. QED
  BY <1>1, InductiveInvariant, PTL DEF Spec, FrozenAfterPayout

(* A swept escrow stays empty and pays nobody.                             *)
THEOREM SweptHolds == Spec => SweptStaysEmpty
<1>. DEFINE A == swept > 0 => vault = 0 /\ UNCHANGED <<vault, paid, fees, swept>>
<1>1. ASSUME Inductive, [Next]_vars PROVE [A]_vars
  <2>1. SUFFICES ASSUME swept > 0, Next
                 PROVE  vault = 0 /\ UNCHANGED <<vault, paid, fees, swept>>
    BY <1>1
  <2>2. /\ vault = 0 /\ LamportVault = 0 /\ (currency = "SPL" => ~tokenVaultOpen)
        /\ status = "inactive" /\ paid \in [Payees -> Nat]
    BY <1>1, <2>1 DEF Inductive, SweptEmpty, PayoutDeactivates, TypeOK, LamportVault
  <2>3. ASSUME NEW pool, NEW capacity,
               InitializeSurvey(pool, capacity) \/ InitializeSurveySpl(pool, capacity)
        PROVE  FALSE
    BY <2>2, <2>3 DEF InitializeSurvey, InitializeSurveySpl, OpenSurvey
  <2>4. ASSUME NEW w, NEW signer, RegisterParticipant(w) \/ CloseSurvey(signer)
        PROVE  FALSE
    BY <2>2, <2>4 DEF RegisterParticipant, CloseSurvey
  <2>5. ASSUME NEW signer, CloseEscrow(signer) \/ CloseEscrowSpl(signer)
        PROVE  FALSE
    BY <2>2, <2>5 DEF CloseEscrow, CloseEscrowSpl
  <2>6. ASSUME NEW signer, NEW fee \in Fees,
               CollectFee(signer, fee) \/ CollectFeeSpl(signer, fee)
        PROVE  FALSE
    <3>1. fee \in Nat
      BY InputsAssumption
    <3>2. QED
      BY <2>2, <2>6, <3>1 DEF CollectFee, CollectFeeSpl
  <2>7. ASSUME NEW signer, NEW batch \in Batches, DistributeRewards(signer, batch)
        PROVE  UNCHANGED <<vault, paid, fees, swept>>
    <3>1. PayBatch(0, batch) /\ batch \in Seq(Entry)
      BY <2>2, <2>7, InputsAssumption DEF DistributeRewards
    <3>2. TotalMoved(0, batch) = 0
      BY <3>1, TotalMovedBounded
    <3>3. ASSUME NEW p PROVE Credit(0, batch, p) = 0
      <4>1. Credit(0, batch, p) \in 0..TotalMoved(0, batch)
        BY <3>1, CreditBounded
      <4>2. QED
        BY <3>2, <4>1
    <3>4. paid' = paid
      <4>1. paid' = [p \in Payees |-> paid[p] + Credit(0, batch, p)]
        BY <3>1 DEF PayBatch
      <4>2. ASSUME NEW p \in Payees PROVE paid[p] + Credit(0, batch, p) = paid[p]
        BY <2>2, <3>3
      <4>3. QED
        BY <2>2, <4>1, <4>2
    <3>5. vault' = vault /\ UNCHANGED <<fees, swept>>
      BY <2>2, <3>1, <3>2 DEF PayBatch
    <3>6. QED
      BY <3>4, <3>5
  <2>8. ASSUME NEW signer, NEW batch, DistributeRewardsSpl(signer, batch)
        PROVE  FALSE
    BY <2>2, <2>8 DEF DistributeRewardsSpl, CanDistributeSpl
  <2>9. QED
    BY <2>1, <2>2, <2>3, <2>4, <2>5, <2>6, <2>7, <2>8 DEF Next
<1>2. QED
  BY <1>1, InductiveInvariant, PTL DEF Spec, SweptStaysEmpty

(* What the loop accounts as distributed is what the payees received, for  *)
(* every batch: repeated wallets, skipped entries, zero amounts, retries.  *)
THEOREM PaidAddsUpHolds == Spec => []PaidAddsUp
<1>1. Init => PaidAddsUp
  <2>1. IsFiniteSet(Payees)
    BY WalletsAssumption, FS_AddElement DEF Payees
  <2>2. ASSUME Init PROVE paid \in [Payees -> Nat] /\ \A p \in Payees : paid[p] = 0
    BY <2>2 DEF Init
  <2>3. ASSUME Init PROVE SumOver(paid) = 0
    BY <2>1, <2>2, <2>3, SumOfZero
  <2>4. QED
    BY <2>3 DEF Init, PaidAddsUp
<1>2. Inductive /\ PaidAddsUp /\ [Next]_vars => PaidAddsUp'
  <2>. SUFFICES ASSUME Inductive, PaidAddsUp, [Next]_vars PROVE PaidAddsUp'
    OBVIOUS
  <2>1. IsFiniteSet(Payees)
    BY WalletsAssumption, FS_AddElement DEF Payees
  <2>2. ASSUME NEW balance \in Nat, NEW batch \in Seq(Entry), PayBatch(balance, batch)
        PROVE  PaidAddsUp'
    <3>. DEFINE credits == [p \in Payees |-> Credit(balance, batch, p)]
    <3>1. paid \in [Payees -> Nat]
      BY DEF Inductive, TypeOK
    <3>2. credits \in [Payees -> Nat] /\ \A p \in Payees : credits[p] = Credit(balance, batch, p)
      <4>1. ASSUME NEW p \in Payees PROVE Credit(balance, batch, p) \in Nat
        <5>1. Credit(balance, batch, p) \in 0..TotalMoved(balance, batch)
          BY CreditBounded
        <5>2. TotalMoved(balance, batch) \in 0..balance
          BY TotalMovedBounded
        <5>3. QED
          BY <5>1, <5>2
      <4>2. QED
        BY <4>1
    <3>3. SumOver(credits) = TotalMoved(balance, batch)
      BY CreditsAddUp
    <3>. HIDE DEF credits
    <3>4. paid' \in [Payees -> Nat] /\ IsPointwiseSum(paid', Payees, paid, credits)
      BY <2>2, <3>1, <3>2 DEF PayBatch, IsPointwiseSum
    <3>5. SumOver(paid') = SumOver(paid) + SumOver(credits)
      BY <2>1, <3>1, <3>2, <3>4, SumAdds
    <3>6. SumOver(paid') = distributed'
      BY <2>2, <3>3, <3>4, <3>5 DEF PayBatch, PaidAddsUp
    <3>7. QED
      BY <3>6 DEF PaidAddsUp
  <2>3. ASSUME UNCHANGED <<distributed, paid>> PROVE PaidAddsUp'
    BY <2>3 DEF PaidAddsUp
  <2>4. ASSUME NEW signer, NEW batch \in Batches, DistributeRewards(signer, batch)
        PROVE  PaidAddsUp'
    <3>1. LamportVault \in Nat /\ batch \in Seq(Entry)
      BY InputsAssumption DEF LamportVault, Inductive, TypeOK, Solvency
    <3>2. QED
      BY <2>2, <2>4, <3>1 DEF DistributeRewards
  <2>5. ASSUME NEW signer, NEW batch \in Batches, DistributeRewardsSpl(signer, batch)
        PROVE  PaidAddsUp'
    <3>1. vault \in Nat /\ batch \in Seq(Entry)
      BY InputsAssumption DEF Inductive, TypeOK, Solvency
    <3>2. QED
      BY <2>2, <2>5, <3>1 DEF DistributeRewardsSpl
  <2>6. CASE UNCHANGED vars
    BY <2>3, <2>6 DEF vars, moneyVars
  <2>7. ASSUME NEW pool, NEW capacity,
               InitializeSurvey(pool, capacity) \/ InitializeSurveySpl(pool, capacity)
        PROVE  PaidAddsUp'
    BY <2>3, <2>7 DEF InitializeSurvey, InitializeSurveySpl, OpenSurvey
  <2>8. ASSUME NEW w, NEW signer, NEW fee,
               \/ RegisterParticipant(w) \/ CloseSurvey(signer)
               \/ CloseEscrow(signer) \/ CloseEscrowSpl(signer)
               \/ CollectFee(signer, fee) \/ CollectFeeSpl(signer, fee)
        PROVE  PaidAddsUp'
    BY <2>3, <2>8 DEF RegisterParticipant, CloseSurvey, CloseEscrow, CloseEscrowSpl, Sweep,
                      CollectFee, CollectFeeSpl, TakeFee, moneyVars
  <2>9. QED
    BY <2>4, <2>5, <2>6, <2>7, <2>8 DEF Next
<1>3. QED
  BY <1>1, <1>2, InductiveInvariant, PTL DEF Spec
=============================================================================
