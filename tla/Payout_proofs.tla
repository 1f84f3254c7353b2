---------------------------- MODULE Payout_proofs ----------------------------
(***************************************************************************)
(* Theorems about the division of a pool (WeightedShares) and about the    *)
(* payout of a survey (Payout).                                            *)
(***************************************************************************)
EXTENDS Payout, FiniteSetTheorems, SequenceTheorems, TLAPS

(* What EscrowProgram_proofs shows of the program's loops, for the program *)
(* as Payout instantiates it.                                              *)
Facts == INSTANCE EscrowProgram_proofs
           WITH MinPool <- [c \in {"SOL", "SPL"} |-> Pool],
                MaxPool <- [c \in {"SOL", "SPL"} |-> Pool],
                Pools <- {}, Capacities <- {}, Fees <- {}, Batches <- {}

(* The program's own assumptions hold of the constants Payout gives it.    *)
LEMMA ProgramAssumptions ==
  Facts!WalletsAssumption /\ Facts!BoundsAssumption /\ Facts!InputsAssumption
<1>1. Facts!WalletsAssumption
  BY ConstantsAssumption DEF Facts!WalletsAssumption, Facts!IsFiniteSet, IsFiniteSet
<1>2. Facts!BoundsAssumption
  BY ConstantsAssumption DEF Facts!BoundsAssumption, Facts!Currency
<1>3. Facts!InputsAssumption
  BY DEF Facts!InputsAssumption
<1>4. QED
  BY <1>1, <1>2, <1>3

(* Induction over the naturals, see EscrowProgram_proofs.                  *)
LEMMA Induction ==
  ASSUME NEW S \in SUBSET Nat, 0 \in S, \A n \in S : n + 1 \in S
  PROVE  S = Nat
  BY ProgramAssumptions, Facts!NatSetInduction

-----------------------------------------------------------------------------
(***************************************************************************)
(* The division of a pool                                                  *)
(***************************************************************************)

(* A function on 1..n is a sequence of length n.                           *)
LEMMA FunctionIsSeq ==
  ASSUME NEW S, NEW n \in Nat, NEW s \in [1..n -> S]
  PROVE  s \in Seq(S) /\ Len(s) = n
  BY IsASeq, LenProperties

(* What the truncating division of two naturals loses is less than one.    *)
LEMMA DivBounds ==
  ASSUME NEW a \in Nat, NEW b \in Nat \ {0}
  PROVE  a \div b \in Nat /\ (a \div b) * b <= a /\ a < (a \div b) * b + b
  OBVIOUS

(* S[k] is the sum of the first k elements of s.                           *)
IsPrefixSum(S, s) ==
    /\ S \in [0..Len(s) -> Nat]
    /\ S[0] = 0
    /\ \A k \in 1..Len(s) : S[k] = S[k-1] + s[k]

(* The loop that sums a sequence of naturals runs.                         *)
LEMMA SumOfUnfolds ==
  ASSUME NEW s \in Seq(Nat)
  PROVE  IsPrefixSum(SumOf(s), s)
<1>. DEFINE n == Len(s)
            step == [p \in Nat \X (1..n) |-> p[1] + s[p[2]]]
<1>1. n \in Nat
  OBVIOUS
<1>2. step \in [Nat \X (1..n) -> Nat]
  OBVIOUS
<1>3. PICK g \in [0..n -> Nat] : Facts!IsRun(g, 0, n, step)
  <2>1. 0 \in Nat
    OBVIOUS
  <2>. HIDE DEF step, n
  <2>2. QED
    BY <1>1, <1>2, <2>1, ProgramAssumptions, Facts!RecursionExists
<1>4. g[0] = 0 /\ \A i \in 1..n : g[i] = step[<<g[i-1], i>>]
  BY <1>3 DEF Facts!IsRun
<1>5. ASSUME NEW i \in 1..n PROVE g[i] = g[i-1] + s[i]
  <2>1. i - 1 \in 0..n
    BY <1>1
  <2>2. g[i-1] \in Nat
    BY <1>3, <2>1
  <2>3. g[i] = step[<<g[i-1], i>>]
    BY <1>4
  <2>4. QED
    BY <2>2, <2>3
<1>6. ASSUME NEW i \in 0..n PROVE g[i] = IF i = 0 THEN 0 ELSE g[i-1] + s[i]
  <2>1. CASE i = 0
    BY <1>4, <2>1
  <2>2. CASE i # 0
    <3>1. i \in 1..n
      BY <1>1, <2>2
    <3>2. QED
      BY <1>5, <2>2, <3>1
  <2>3. QED
    BY <2>1, <2>2
<1>7. g = [i \in 0..n |-> IF i = 0 THEN 0 ELSE g[i-1] + s[i]]
  BY <1>3, <1>6
<1>. DEFINE S == SumOf(s)
<1>8. S = [i \in 0..n |-> IF i = 0 THEN 0 ELSE S[i-1] + s[i]]
  BY <1>7 DEF SumOf
<1>. HIDE DEF S
<1>9. S[0] = 0
  BY <1>1, <1>8
<1>10. ASSUME NEW i \in 1..n PROVE S[i] = S[i-1] + s[i]
  <2>1. i \in 0..n /\ i # 0
    BY <1>1
  <2>2. QED
    BY <1>8, <2>1
<1>11. ASSUME NEW i \in 0..n PROVE S[i] \in Nat
  <2>. DEFINE K == {k \in Nat : k <= n => S[k] \in Nat}
  <2>1. 0 \in K
    BY <1>9
  <2>2. ASSUME NEW k \in K PROVE k + 1 \in K
    <3>1. SUFFICES ASSUME k + 1 <= n PROVE S[k+1] \in Nat
      OBVIOUS
    <3>2. k + 1 \in 1..n /\ (k + 1) - 1 = k /\ S[k] \in Nat /\ s[k+1] \in Nat
      BY <1>1, <2>2, <3>1
    <3>3. S[k+1] = S[k] + s[k+1]
      BY <1>10, <3>2
    <3>4. QED
      BY <3>2, <3>3
  <2>3. K \in SUBSET Nat
    OBVIOUS
  <2>. HIDE DEF K
  <2>4. K = Nat
    BY <2>1, <2>2, <2>3, Induction
  <2>5. i \in K
    BY <2>4
  <2>6. QED
    BY <1>1, <2>5 DEF K
<1>12. S \in [0..n -> Nat]
  BY <1>8, <1>11
<1>13. QED
  BY <1>9, <1>10, <1>12 DEF IsPrefixSum, S

(* Prefix sums grow, so no element exceeds the total.                      *)
LEMMA ElementWithinTotal ==
  ASSUME NEW s \in Seq(Nat), NEW i \in 1..Len(s)
  PROVE  s[i] \in Nat /\ s[i] <= Total(s)
<1>. DEFINE n == Len(s)
            S == SumOf(s)
            K == {k \in Nat : i <= k /\ k <= n => s[i] <= S[k]}
<1>1. /\ S \in [0..n -> Nat] /\ S[0] = 0
      /\ \A k \in 1..n : S[k] = S[k-1] + s[k]
  BY SumOfUnfolds DEF IsPrefixSum
<1>2. n \in Nat /\ \A k \in 1..n : s[k] \in Nat
  OBVIOUS
<1>. HIDE DEF S, n
<1>3. i \in Nat /\ 1 <= i /\ i <= n
  BY <1>2 DEF n
<1>4. 0 \in K
  BY <1>3
<1>5. ASSUME NEW k \in K PROVE k + 1 \in K
  <2>1. SUFFICES ASSUME i <= k + 1, k + 1 <= n PROVE s[i] <= S[k+1]
    OBVIOUS
  <2>2. k \in 0..n /\ k + 1 \in 1..n /\ (k + 1) - 1 = k
    BY <1>2, <1>5, <2>1
  <2>3. S[k+1] = S[k] + s[k+1] /\ S[k] \in Nat /\ s[k+1] \in Nat
    BY <1>1, <1>2, <2>2
  <2>4. CASE i = k + 1
    BY <2>3, <2>4
  <2>5. CASE i # k + 1
    <3>1. s[i] <= S[k] /\ s[i] \in Nat
      BY <1>2, <1>3, <1>5, <2>1, <2>5
    <3>2. QED
      BY <2>3, <3>1
  <2>6. QED
    BY <2>4, <2>5
<1>6. K = Nat
  <2>1. K \in SUBSET Nat
    OBVIOUS
  <2>. HIDE DEF K
  <2>2. QED
    BY <1>4, <1>5, <2>1, Induction
<1>7. n \in K
  BY <1>2, <1>6
<1>8. s[i] <= S[n]
  BY <1>3, <1>7
<1>9. QED
  BY <1>2, <1>3, <1>8 DEF Total, S, n

(* The weights calculateWeightedAmounts works with: at least one           *)
(* participant, and no weight is zero.                                     *)
Divisible == {weights \in Seq(Nat \ {0}) : weights # <<>>}

(* The total weight is positive: the divisions are defined.                *)
LEMMA TotalWeight ==
  ASSUME NEW weights \in Divisible
  PROVE  /\ weights \in Seq(Nat) /\ Len(weights) \in Nat \ {0}
         /\ Total(weights) \in Nat \ {0}
         /\ \A i \in 1..Len(weights) : weights[i] \in Nat \ {0}
<1>1. weights \in Seq(Nat \ {0}) /\ weights # <<>>
  BY DEF Divisible
<1>2. weights \in Seq(Nat)
  BY <1>1, SeqMonotonic
<1>3. Len(weights) \in Nat \ {0} /\ \A i \in 1..Len(weights) : weights[i] \in Nat \ {0}
  BY <1>1, EmptySeq, LenProperties
<1>4. Total(weights) \in Nat
  BY <1>2, SumOfUnfolds DEF Total, IsPrefixSum
<1>5. weights[1] <= Total(weights) /\ weights[1] \in Nat \ {0}
  BY <1>2, <1>3, ElementWithinTotal
<1>6. QED
  BY <1>2, <1>3, <1>4, <1>5

(* Each truncated share loses less than one unit.                          *)
LEMMA FloorBounds ==
  ASSUME NEW weights \in Divisible, NEW units \in Nat
  PROVE  /\ Floors(weights, units) \in Seq(Nat)
         /\ Len(Floors(weights, units)) = Len(weights)
         /\ \A i \in 1..Len(weights) :
              /\ Floors(weights, units)[i] = (units * weights[i]) \div Total(weights)
              /\ Floors(weights, units)[i] \in Nat
              /\ Floors(weights, units)[i] * Total(weights) <= units * weights[i]
              /\ units * weights[i] < Floors(weights, units)[i] * Total(weights) + Total(weights)
<1>. DEFINE n == Len(weights)
            T == Total(weights)
            floors == Floors(weights, units)
<1>1. n \in Nat \ {0} /\ T \in Nat \ {0} /\ \A i \in 1..n : weights[i] \in Nat \ {0}
  BY TotalWeight
<1>2. floors = [i \in 1..n |-> (units * weights[i]) \div T]
  BY DEF Floors
<1>. HIDE DEF n, T, floors
<1>3. ASSUME NEW i \in 1..n
      PROVE  /\ floors[i] = (units * weights[i]) \div T
             /\ floors[i] \in Nat
             /\ floors[i] * T <= units * weights[i]
             /\ units * weights[i] < floors[i] * T + T
  <2>1. units * weights[i] \in Nat
    BY <1>1
  <2>2. PICK a \in Nat : a = units * weights[i]
    BY <2>1
  <2>3. floors[i] = a \div T
    BY <1>2, <2>2
  <2>4. a \div T \in Nat /\ (a \div T) * T <= a /\ a < (a \div T) * T + T
    BY <1>1, DivBounds
  <2>5. QED
    BY <2>2, <2>3, <2>4
<1>4. floors \in [1..n -> Nat]
  BY <1>2, <1>3
<1>5. floors \in Seq(Nat) /\ Len(floors) = n
  BY <1>1, <1>4, FunctionIsSeq
<1>6. QED
  BY <1>3, <1>5 DEF n, T, floors

(* One more participant loses at most one part less than a unit.           *)
LEMMA FloorStep ==
  ASSUME NEW units \in Nat, NEW T \in Nat \ {0}, NEW k \in Nat,
         NEW a \in Nat, NEW b \in Nat, NEW f \in Nat, NEW w \in Nat,
         a * T <= units * b, units * b <= a * T + k * (T - 1),
         f * T <= units * w, units * w < f * T + T
  PROVE  /\ (a + f) * T <= units * (b + w)
         /\ units * (b + w) <= (a + f) * T + (k + 1) * (T - 1)
<1>1. /\ (a + f) * T = a * T + f * T
      /\ units * (b + w) = units * b + units * w
      /\ (k + 1) * (T - 1) = k * (T - 1) + (T - 1)
  OBVIOUS
<1>2. /\ a * T \in Nat /\ f * T \in Nat /\ units * b \in Nat /\ units * w \in Nat
      /\ k * (T - 1) \in Nat /\ T - 1 \in Nat
  OBVIOUS
<1>3. QED
  BY <1>1, <1>2

(* All the truncations together lose less than one unit per participant,   *)
(* and never a negative amount.                                            *)
LEMMA FloorsWithinPool ==
  ASSUME NEW weights \in Divisible, NEW units \in Nat
  PROVE  /\ Total(Floors(weights, units)) \in Nat
         /\ Total(Floors(weights, units)) <= units
         /\ (units - Total(Floors(weights, units))) * Total(weights)
              < Len(weights) * Total(weights)
<1>. DEFINE n == Len(weights)
            T == Total(weights)
            floors == Floors(weights, units)
            W == SumOf(weights)
            F == SumOf(floors)
            K == {k \in Nat : k <= n => /\ F[k] * T <= units * W[k]
                                        /\ units * W[k] <= F[k] * T + k * (T - 1)}
<1>1. /\ n \in Nat \ {0} /\ T \in Nat \ {0} /\ weights \in Seq(Nat)
      /\ \A i \in 1..n : weights[i] \in Nat \ {0}
  BY TotalWeight
<1>2. /\ floors \in Seq(Nat) /\ Len(floors) = n
      /\ \A i \in 1..n : /\ floors[i] \in Nat
                         /\ floors[i] * T <= units * weights[i]
                         /\ units * weights[i] < floors[i] * T + T
  BY FloorBounds
<1>3. W \in [0..n -> Nat] /\ W[0] = 0 /\ \A k \in 1..n : W[k] = W[k-1] + weights[k]
  BY <1>1, SumOfUnfolds DEF IsPrefixSum
<1>4. F \in [0..n -> Nat] /\ F[0] = 0 /\ \A k \in 1..n : F[k] = F[k-1] + floors[k]
  BY <1>2, SumOfUnfolds DEF IsPrefixSum
<1>5. W[n] = T /\ F[n] = Total(floors)
  BY <1>2 DEF Total
<1>. HIDE DEF n, T, floors, W, F
<1>6. 0 \in K
  BY <1>1, <1>3, <1>4
<1>7. ASSUME NEW k \in K PROVE k + 1 \in K
  <2>1. SUFFICES ASSUME k + 1 <= n
                 PROVE  /\ F[k+1] * T <= units * W[k+1]
                        /\ units * W[k+1] <= F[k+1] * T + (k + 1) * (T - 1)
    OBVIOUS
  <2>2. k \in 0..n /\ k + 1 \in 1..n /\ (k + 1) - 1 = k
    BY <1>1, <1>7, <2>1
  <2>3. PICK f \in Nat, w \in Nat, a \in Nat, b \in Nat :
           f = floors[k+1] /\ w = weights[k+1] /\ a = F[k] /\ b = W[k]
    BY <1>1, <1>2, <1>3, <1>4, <2>2
  <2>4. F[k+1] = a + f /\ W[k+1] = b + w
    BY <1>3, <1>4, <2>2, <2>3
  <2>5. f * T <= units * w /\ units * w < f * T + T
    BY <1>2, <2>2, <2>3
  <2>6. a * T <= units * b /\ units * b <= a * T + k * (T - 1)
    BY <1>7, <2>2, <2>3
  <2>7. /\ (a + f) * T <= units * (b + w)
        /\ units * (b + w) <= (a + f) * T + (k + 1) * (T - 1)
    <3>1. T \in Nat \ {0} /\ k \in Nat
      BY <1>1, <1>7
    <3>. QED
      BY <2>5, <2>6, <3>1, FloorStep
  <2>8. QED
    BY <2>4, <2>7
<1>8. K = Nat
  <2>1. K \in SUBSET Nat
    OBVIOUS
  <2>. HIDE DEF K
  <2>2. QED
    BY <1>6, <1>7, <2>1, Induction
<1>9. n \in K
  BY <1>1, <1>8
<1>10. PICK g \in Nat : g = Total(floors)
  BY <1>1, <1>4, <1>5
<1>11. g * T <= units * T /\ units * T <= g * T + n * (T - 1)
  BY <1>1, <1>5, <1>9, <1>10
<1>12. g <= units
  BY <1>1, <1>11
<1>13. (units - g) * T < n * T
  <2>1. n * (T - 1) = n * T - n /\ (units - g) * T = units * T - g * T
    BY <1>1
  <2>2. n * T \in Int /\ units * T \in Int /\ g * T \in Int
    BY <1>1
  <2>3. QED
    BY <1>1, <1>11, <2>1, <2>2
<1>14. QED
  BY <1>10, <1>12, <1>13 DEF n, T, floors

(* Some participant has the highest weight: findIndex finds it.            *)
LEMMA HighestIsHighest ==
  ASSUME NEW weights \in Divisible
  PROVE  /\ Highest(weights) \in 1..Len(weights)
         /\ \A j \in 1..Len(weights) : weights[j] <= weights[Highest(weights)]
<1>. DEFINE n == Len(weights)
            First(i, k) == /\ \A j \in 1..k : weights[j] <= weights[i]
                           /\ \A j \in 1..(i-1) : weights[j] < weights[i]
            K == {k \in Nat : k + 1 <= n => \E i \in 1..(k+1) : First(i, k + 1)}
<1>1. n \in Nat \ {0} /\ \A i \in 1..n : weights[i] \in Nat
  BY TotalWeight
<1>. HIDE DEF n
<1>2. 0 \in K
  <2>1. 1 \in 1..(0+1) /\ weights[1] \in Nat
    BY <1>1
  <2>2. First(1, 0 + 1)
    BY <2>1
  <2>. HIDE DEF First
  <2>3. QED
    BY <2>1, <2>2
<1>3. ASSUME NEW k \in K PROVE k + 1 \in K
  <2>1. SUFFICES ASSUME (k + 1) + 1 <= n
                 PROVE  \E i \in 1..((k+1)+1) : First(i, (k + 1) + 1)
    OBVIOUS
  <2>2. PICK i \in 1..(k+1) : First(i, k + 1)
    BY <1>1, <1>3, <2>1
  <2>3. /\ k \in Nat /\ i \in 1..((k+1)+1)
        /\ (k + 1) + 1 \in 1..((k+1)+1)
        /\ \A j \in 1..((k+1)+1) : weights[j] \in Nat
    BY <1>1, <1>3, <2>1
  <2>4. CASE weights[(k+1)+1] <= weights[i]
    <3>1. First(i, (k + 1) + 1)
      BY <2>2, <2>3, <2>4
    <3>. HIDE DEF First
    <3>2. QED
      BY <2>3, <3>1
  <2>5. CASE weights[i] < weights[(k+1)+1]
    <3>1. \A j \in 1..(k+1) : weights[j] < weights[(k+1)+1]
      BY <2>2, <2>3, <2>5
    <3>2. First((k + 1) + 1, (k + 1) + 1)
      BY <2>3, <3>1
    <3>. HIDE DEF First
    <3>3. QED
      BY <2>3, <3>2
  <2>6. QED
    BY <2>3, <2>4, <2>5
<1>4. K = Nat
  <2>1. K \in SUBSET Nat
    OBVIOUS
  <2>. HIDE DEF K
  <2>2. QED
    BY <1>2, <1>3, <2>1, Induction
<1>5. \E i \in 1..n : First(i, n)
  <2>1. n - 1 \in Nat /\ (n - 1) + 1 = n
    BY <1>1
  <2>2. n - 1 \in K
    <3>. HIDE DEF K
    <3>. QED
      BY <1>4, <2>1
  <2>. HIDE DEF First
  <2>3. QED
    BY <1>1, <2>1, <2>2
<1>6. First(Highest(weights), n) /\ Highest(weights) \in 1..n
  BY <1>5 DEF Highest, n
<1>7. QED
  BY <1>6 DEF n

(* s1 is s with its i-th element raised by r.                              *)
IsRaised(s1, s, i, r) ==
    Len(s1) = Len(s) /\ \A j \in 1..Len(s) : s1[j] = s[j] + (IF j = i THEN r ELSE 0)

(* Raising one element raises the total by as much.                        *)
LEMMA TotalOfExcept ==
  ASSUME NEW s \in Seq(Nat), NEW i \in 1..Len(s), NEW r \in Nat,
         NEW s1 \in Seq(Nat), IsRaised(s1, s, i, r)
  PROVE  Total(s1) = Total(s) + r
<1>. DEFINE n == Len(s)
            S == SumOf(s)
            S1 == SumOf(s1)
            K == {k \in Nat : k <= n => S1[k] = S[k] + (IF i <= k THEN r ELSE 0)}
<1>1. S \in [0..n -> Nat] /\ S[0] = 0 /\ \A k \in 1..n : S[k] = S[k-1] + s[k]
  BY SumOfUnfolds DEF IsPrefixSum
<1>2. S1 \in [0..n -> Nat] /\ S1[0] = 0 /\ \A k \in 1..n : S1[k] = S1[k-1] + s1[k]
  BY SumOfUnfolds DEF IsPrefixSum, IsRaised
<1>3. n \in Nat /\ i \in 1..n /\ \A k \in 1..n : s[k] \in Nat
  OBVIOUS
<1>. HIDE DEF S, S1
<1>4. 0 \in K
  BY <1>1, <1>2, <1>3
<1>5. ASSUME NEW k \in K PROVE k + 1 \in K
  <2>1. SUFFICES ASSUME k + 1 <= n
                 PROVE  S1[k+1] = S[k+1] + (IF i <= k + 1 THEN r ELSE 0)
    OBVIOUS
  <2>2. k \in 0..n /\ k + 1 \in 1..n /\ (k + 1) - 1 = k
    BY <1>3, <1>5, <2>1
  <2>3. S[k+1] = S[k] + s[k+1] /\ S[k] \in Nat /\ s[k+1] \in Nat
    BY <1>1, <1>3, <2>2
  <2>4. S1[k+1] = S1[k] + s1[k+1]
    BY <1>2, <2>2
  <2>5. s1[k+1] = s[k+1] + (IF k + 1 = i THEN r ELSE 0)
    BY <2>2 DEF IsRaised
  <2>6. S1[k] = S[k] + (IF i <= k THEN r ELSE 0)
    BY <1>5, <2>2
  <2>7. i \in Nat /\ k \in Nat
    BY <1>3, <2>2
  <2>8. CASE i = k + 1
    <3>1. S1[k] = S[k] /\ s1[k+1] = s[k+1] + r
      BY <2>3, <2>5, <2>6, <2>7, <2>8
    <3>. QED
      BY <2>3, <2>4, <2>8, <3>1
  <2>9. CASE i # k + 1
    <3>1. s1[k+1] = s[k+1] /\ (i <= k <=> i <= k + 1)
      BY <2>3, <2>5, <2>7, <2>9
    <3>. QED
      BY <2>3, <2>4, <2>6, <3>1
  <2>10. QED
    BY <2>8, <2>9
<1>6. K = Nat
  <2>1. K \in SUBSET Nat
    OBVIOUS
  <2>. HIDE DEF K
  <2>2. QED
    BY <1>4, <1>5, <2>1, Induction
<1>7. n \in K
  BY <1>3, <1>6
<1>8. S1[n] = S[n] + r
  BY <1>3, <1>7
<1>9. QED
  BY <1>8 DEF Total, S, S1, n, IsRaised

(* What the first highest weight gets on top.                              *)
Remainder(weights, units) == units - Total(Floors(weights, units))

(* The shares are the truncated quotients, and the remainder for the first *)
(* highest weight.                                                         *)
LEMMA SharesAre ==
  ASSUME NEW weights \in Divisible, NEW units \in Nat
  PROVE  /\ Remainder(weights, units) \in Nat
         /\ Shares(weights, units) \in Seq(Nat)
         /\ Len(Shares(weights, units)) = Len(weights)
         /\ \A i \in 1..Len(weights) :
              Shares(weights, units)[i] =
                Floors(weights, units)[i]
                  + (IF i = Highest(weights) THEN Remainder(weights, units) ELSE 0)
<1>. DEFINE n == Len(weights)
            floors == Floors(weights, units)
            shares == Shares(weights, units)
            r == Remainder(weights, units)
            h == Highest(weights)
<1>1. n \in Nat
  BY TotalWeight
<1>2. floors \in Seq(Nat) /\ Len(floors) = n /\ \A i \in 1..n : floors[i] \in Nat
  BY FloorBounds
<1>3. r \in Nat
  <2>1. PICK g \in Nat : g = Total(floors) /\ g <= units
    BY FloorsWithinPool
  <2>2. QED
    BY <2>1 DEF Remainder
<1>4. h \in 1..n
  BY HighestIsHighest
<1>5. shares = IF r > 0 THEN [floors EXCEPT ![h] = @ + r] ELSE floors
  BY DEF Shares, Remainder
<1>6. floors \in [1..n -> Nat]
  BY <1>2
<1>. HIDE DEF n, floors, shares, r, h
<1>7. shares \in [1..n -> Nat] /\ \A i \in 1..n : shares[i] = floors[i] + (IF i = h THEN r ELSE 0)
  <2>1. CASE r > 0
    BY <1>2, <1>3, <1>4, <1>5, <1>6, <2>1
  <2>2. CASE r = 0
    BY <1>2, <1>5, <1>6, <2>2
  <2>3. QED
    BY <1>3, <2>1, <2>2
<1>8. shares \in Seq(Nat) /\ Len(shares) = n
  BY <1>1, <1>7, FunctionIsSeq
<1>9. QED
  BY <1>3, <1>7, <1>8 DEF n, floors, shares, r, h

(* The shares add up to the pool.                                          *)
LEMMA SharesExact ==
  ASSUME NEW weights \in Divisible, NEW units \in Nat
  PROVE  DividesExactly(weights, units)
<1>. DEFINE n == Len(weights)
            floors == Floors(weights, units)
            shares == Shares(weights, units)
            r == Remainder(weights, units)
            h == Highest(weights)
<1>1. /\ r \in Nat /\ shares \in Seq(Nat) /\ Len(shares) = n
      /\ \A i \in 1..n : shares[i] = floors[i] + (IF i = h THEN r ELSE 0)
  BY SharesAre
<1>2. floors \in Seq(Nat) /\ Len(floors) = n
  BY FloorBounds
<1>3. h \in 1..n
  BY HighestIsHighest
<1>4. PICK g \in Nat : g = Total(floors)
  BY FloorsWithinPool
<1>5. r = units - g
  BY <1>4 DEF Remainder
<1>. HIDE DEF floors, shares, r, h, n
<1>6. Total(shares) = Total(floors) + r
  <2>1. IsRaised(shares, floors, h, r)
    BY <1>1, <1>2 DEF IsRaised
  <2>2. QED
    BY <1>1, <1>2, <1>3, <2>1, TotalOfExcept
<1>7. QED
  BY <1>4, <1>5, <1>6 DEF DividesExactly, shares

(* Whole numbers of T can be compared by their multiples.                  *)
LEMMA FloorMonotone ==
  ASSUME NEW units \in Nat, NEW T \in Nat \ {0}, NEW w \in Nat, NEW v \in Nat, v <= w,
         NEW f \in Nat, NEW g \in Nat,
         g * T <= units * v, units * w < f * T + T
  PROVE  g <= f
<1>1. units * v <= units * w
  <2>1. PICK d \in Nat : w = v + d
    BY w - v \in Nat
  <2>2. units * w = units * v + units * d /\ units * v \in Nat /\ units * d \in Nat
    BY <2>1
  <2>3. QED
    BY <2>2
<1>2. g * T < f * T + T
  <2>1. g * T \in Nat /\ f * T \in Nat /\ units * v \in Nat /\ units * w \in Nat
    OBVIOUS
  <2>2. QED
    BY <1>1, <2>1
<1>3. SUFFICES ASSUME g > f PROVE FALSE
  OBVIOUS
<1>4. PICK d \in Nat : g = f + 1 + d
  BY <1>3, g - f - 1 \in Nat
<1>5. g * T = f * T + T + d * T /\ d * T \in Nat /\ f * T \in Nat
  BY <1>4
<1>6. QED
  BY <1>2, <1>5

(* A higher badge is never paid less, remainder included.                  *)
LEMMA HigherNeverLess ==
  ASSUME NEW weights \in Divisible, NEW units \in Nat
  PROVE  HigherWeightNeverLess(weights, units)
<1>. DEFINE n == Len(weights)
            T == Total(weights)
            floors == Floors(weights, units)
            shares == Shares(weights, units)
            r == Remainder(weights, units)
            h == Highest(weights)
<1>1. SUFFICES ASSUME NEW i \in 1..n, NEW j \in 1..n, weights[i] > weights[j]
               PROVE  shares[i] >= shares[j]
  BY DEF HigherWeightNeverLess
<1>2. T \in Nat \ {0} /\ weights[i] \in Nat /\ weights[j] \in Nat
  BY TotalWeight
<1>3. weights[j] < weights[h] /\ weights[h] \in Nat
  <2>1. h \in 1..n /\ weights[i] <= weights[h]
    BY HighestIsHighest
  <2>2. weights[h] \in Nat
    BY <2>1, TotalWeight
  <2>3. QED
    BY <1>1, <1>2, <2>1, <2>2
<1>4. /\ floors[i] \in Nat /\ units * weights[i] < floors[i] * T + T
      /\ floors[j] \in Nat /\ floors[j] * T <= units * weights[j]
  BY FloorBounds
<1>5. /\ shares[i] = floors[i] + (IF i = h THEN r ELSE 0)
      /\ shares[j] = floors[j] + (IF j = h THEN r ELSE 0) /\ r \in Nat
  BY SharesAre
<1>. HIDE DEF T, floors, shares, r, h, n
<1>6. floors[j] <= floors[i]
  <2>1. weights[j] <= weights[i]
    BY <1>1, <1>2
  <2>2. QED
    BY <1>2, <1>4, <2>1, FloorMonotone
<1>7. j # h
  BY <1>3
<1>8. QED
  BY <1>4, <1>5, <1>6, <1>7

(* What a share lacks, and exceeds, of its exact part.                     *)
LEMMA ShareBounds ==
  ASSUME NEW units \in Nat, NEW T \in Nat \ {0}, NEW n \in Nat \ {0}, NEW w \in Nat,
         NEW f \in Nat, f * T <= units * w, units * w < f * T + T,
         NEW r \in Nat, r * T < n * T
  PROVE  (f + r) * T > units * w - T /\ (f + r) * T < units * w + n * T
<1>1. (f + r) * T = f * T + r * T
  OBVIOUS
<1>2. f * T \in Nat /\ r * T \in Nat /\ units * w \in Nat /\ n * T \in Nat
  OBVIOUS
<1>3. QED
  BY <1>1, <1>2

(* Each share is proportional to its weight up to rounding.                *)
LEMMA SharesProportional ==
  ASSUME NEW weights \in Divisible, NEW units \in Nat
  PROVE  ProportionalToWeight(weights, units)
<1>. DEFINE n == Len(weights)
            T == Total(weights)
            floors == Floors(weights, units)
            shares == Shares(weights, units)
            r == Remainder(weights, units)
            h == Highest(weights)
<1>1. SUFFICES ASSUME NEW i \in 1..n
               PROVE  /\ shares[i] * T > units * weights[i] - T
                      /\ shares[i] * T < units * weights[i] + n * T
  BY DEF ProportionalToWeight
<1>2. T \in Nat \ {0} /\ n \in Nat \ {0} /\ weights[i] \in Nat
  BY TotalWeight
<1>3. /\ floors[i] \in Nat /\ floors[i] * T <= units * weights[i]
      /\ units * weights[i] < floors[i] * T + T
  BY FloorBounds
<1>4. shares[i] = floors[i] + (IF i = h THEN r ELSE 0) /\ r \in Nat
  BY SharesAre
<1>5. r * T < n * T
  BY FloorsWithinPool DEF Remainder
<1>. HIDE DEF T, floors, shares, r, h, n
<1>6. 0 * T < n * T
  <2>1. PICK m \in Nat : n = m + 1
    BY <1>2, n - 1 \in Nat
  <2>2. n * T = m * T + T /\ m * T \in Nat /\ 0 * T = 0
    BY <1>2, <2>1
  <2>3. QED
    BY <1>2, <2>2
<1>7. PICK q \in Nat : shares[i] = floors[i] + q /\ q * T < n * T
  BY <1>4, <1>5, <1>6
<1>8. QED
  BY <1>2, <1>3, <1>7, ShareBounds

(* Every tier has a weight between a half and one and a half, in percent.  *)
LEMMA WeightBounds ==
  ASSUME NEW tier
  PROVE  Weight(tier) \in 50..150
  BY DEF Weight, BadgeWeights

(* The weights of any sequence of tiers, listed or not, are positive.      *)
LEMMA WeightsAreDivisible ==
  ASSUME NEW n \in Nat \ {0}, NEW badge
  PROVE  /\ [i \in 1..n |-> Weight(badge[i])] \in Divisible
         /\ Len([i \in 1..n |-> Weight(badge[i])]) = n
<1>. DEFINE weights == [i \in 1..n |-> Weight(badge[i])]
<1>1. weights \in [1..n -> Nat \ {0}]
  <2>1. ASSUME NEW i \in 1..n PROVE Weight(badge[i]) \in Nat \ {0}
    BY WeightBounds
  <2>2. QED
    BY <2>1
<1>. HIDE DEF weights
<1>2. weights \in Seq(Nat \ {0}) /\ Len(weights) = n
  BY <1>1, FunctionIsSeq
<1>3. weights # <<>>
  BY <1>2
<1>4. QED
  BY <1>2, <1>3 DEF Divisible, weights

(* For any number of participants of any tiers and any pool: the shares    *)
(* are the whole pool, proportional to the weights up to rounding, and a   *)
(* higher badge is never paid less (calculateWeightedAmounts).             *)
THEOREM DivisionIsFair ==
  ASSUME NEW tiers \in Seq(Tiers) \ {<<>>}, NEW pool \in Nat
  PROVE  DividesFairly(tiers, pool)
<1>1. Len(tiers) \in Nat \ {0}
  BY EmptySeq, LenProperties
<1>2. WeightsOf(tiers) \in Divisible
  BY <1>1, WeightsAreDivisible DEF WeightsOf
<1>3. QED
  BY <1>2, SharesExact, SharesProportional, HigherNeverLess DEF DividesFairly

-----------------------------------------------------------------------------
(***************************************************************************)
(* The responses that are paid, and their plans                            *)
(***************************************************************************)

(* r holds elements of s that are in S, each once if s has no duplicates.  *)
IsKept(r, s, S, k) ==
    /\ Len(r) <= k
    /\ \A i \in 1..Len(r) : r[i] \in S /\ \E j \in 1..k : r[i] = s[j]
    /\ Distinct(s) => Distinct(r)

(* One more element of s is kept, or not.                                  *)
LEMMA KeepOne ==
  ASSUME NEW W, NEW s \in Seq(W), NEW S, NEW k \in Nat, k + 1 <= Len(s),
         NEW r \in Seq(W), IsKept(r, s, S, k),
         NEW q, q = IF s[k+1] \in S THEN Append(r, s[k+1]) ELSE r
  PROVE  q \in Seq(W) /\ IsKept(q, s, S, k + 1)
<1>1. s[k+1] \in W
  BY k + 1 \in 1..Len(s)
<1>2. CASE s[k+1] \notin S
  BY <1>2 DEF IsKept
<1>3. CASE s[k+1] \in S
  <2>1. /\ q \in Seq(W) /\ Len(q) = Len(r) + 1 /\ Len(r) \in Nat
        /\ \A i \in 1..Len(r) : q[i] = r[i]
        /\ q[Len(r) + 1] = s[k+1]
    BY <1>1, <1>3
  <2>2. Len(q) <= k + 1
    BY <2>1 DEF IsKept
  <2>3. ASSUME NEW i \in 1..Len(q)
        PROVE  q[i] \in S /\ \E j \in 1..k+1 : q[i] = s[j]
    <3>1. CASE i = Len(r) + 1
      BY <1>3, <2>1, <3>1
    <3>2. CASE i # Len(r) + 1
      <4>1. i \in 1..Len(r)
        BY <2>1, <3>2
      <4>2. PICK j \in 1..k : r[i] = s[j]
        BY <4>1 DEF IsKept
      <4>3. j \in 1..k+1
        OBVIOUS
      <4>4. QED
        BY <2>1, <4>1, <4>2, <4>3 DEF IsKept
    <3>3. QED
      BY <3>1, <3>2
  <2>4. ASSUME Distinct(s) PROVE Distinct(q)
    <3>1. ASSUME NEW i \in 1..Len(r) PROVE q[i] # q[Len(r) + 1]
      <4>1. PICK j \in 1..k : r[i] = s[j]
        BY DEF IsKept
      <4>2. j \in 1..Len(s) /\ k + 1 \in 1..Len(s) /\ j # k + 1
        OBVIOUS
      <4>3. s[j] # s[k+1]
        BY <2>4, <4>2 DEF Distinct
      <4>4. QED
        BY <2>1, <4>1, <4>3
    <3>2. SUFFICES ASSUME NEW i \in 1..Len(q), NEW j \in 1..Len(q), q[i] = q[j]
                   PROVE  i = j
      BY DEF Distinct
    <3>3. i \in 1..Len(r) \/ i = Len(r) + 1
      BY <2>1
    <3>4. j \in 1..Len(r) \/ j = Len(r) + 1
      BY <2>1
    <3>5. CASE i \in 1..Len(r) /\ j \in 1..Len(r)
      BY <2>1, <2>4, <3>2, <3>5 DEF IsKept, Distinct
    <3>6. QED
      BY <3>1, <3>2, <3>3, <3>4, <3>5
  <2>5. QED
    BY <2>1, <2>2, <2>3, <2>4 DEF IsKept
<1>4. QED
  BY <1>2, <1>3

(* The filter of the find keeps members of S, at most once each.           *)
LEMMA KeptIs ==
  ASSUME NEW W, NEW s \in Seq(W), NEW S
  PROVE  Kept(s, S) \in Seq(W) /\ IsKept(Kept(s, S), s, S, Len(s))
<1>. DEFINE n == Len(s)
            Next1(r, i) == IF s[i] \in S THEN Append(r, s[i]) ELSE r
            step == [p \in Seq(W) \X (1..n) |-> Next1(p[1], p[2])]
<1>1. n \in Nat
  OBVIOUS
<1>2. step \in [Seq(W) \X (1..n) -> Seq(W)]
  <2>1. ASSUME NEW r \in Seq(W), NEW i \in 1..n PROVE Next1(r, i) \in Seq(W)
    OBVIOUS
  <2>. HIDE DEF Next1, n
  <2>2. QED
    BY <2>1
<1>3. PICK g \in [0..n -> Seq(W)] : Facts!IsRun(g, <<>>, n, step)
  <2>1. <<>> \in Seq(W)
    OBVIOUS
  <2>. HIDE DEF step, n
  <2>2. QED
    BY <1>1, <1>2, <2>1, ProgramAssumptions, Facts!RecursionExists
<1>4. g[0] = <<>> /\ \A i \in 1..n : g[i] = step[<<g[i-1], i>>]
  BY <1>3 DEF Facts!IsRun
<1>5. ASSUME NEW i \in 1..n PROVE g[i] = Next1(g[i-1], i)
  <2>1. i - 1 \in 0..n
    BY <1>1
  <2>2. g[i-1] \in Seq(W)
    BY <1>3, <2>1
  <2>3. g[i] = step[<<g[i-1], i>>]
    BY <1>4
  <2>. HIDE DEF Next1, n
  <2>4. QED
    BY <2>2, <2>3
<1>6. ASSUME NEW i \in 0..n PROVE g[i] = IF i = 0 THEN <<>> ELSE Next1(g[i-1], i)
  <2>1. CASE i = 0
    BY <1>4, <2>1
  <2>2. CASE i # 0
    <3>1. i \in 1..n
      BY <1>1, <2>2
    <3>. HIDE DEF Next1
    <3>2. QED
      BY <1>5, <2>2, <3>1
  <2>3. QED
    BY <2>1, <2>2
<1>7. g = [i \in 0..n |-> IF i = 0 THEN <<>> ELSE Next1(g[i-1], i)]
  <2>. HIDE DEF Next1
  <2>. QED
    BY <1>3, <1>6
<1>. DEFINE F == CHOOSE f : f = [i \in 0..n |-> IF i = 0 THEN <<>> ELSE Next1(f[i-1], i)]
<1>8. F = [i \in 0..n |-> IF i = 0 THEN <<>> ELSE Next1(F[i-1], i)]
  <2>. HIDE DEF Next1, n
  <2>. QED
    BY <1>7
<1>9. Kept(s, S) = F[n]
  BY DEF Kept
<1>. HIDE DEF F
<1>10. F[0] = <<>> /\ \A i \in 1..n : F[i] = Next1(F[i-1], i)
  <2>1. 0 \in 0..n /\ \A i \in 1..n : i \in 0..n /\ i # 0
    BY <1>1
  <2>. HIDE DEF Next1, n
  <2>2. QED
    BY <1>8, <2>1
<1>. DEFINE K == {k \in Nat : k <= n => F[k] \in Seq(W) /\ IsKept(F[k], s, S, k)}
<1>11. 0 \in K
  <2>1. IsKept(<<>>, s, S, 0)
    BY DEF IsKept, Distinct
  <2>2. <<>> \in Seq(W)
    OBVIOUS
  <2>3. QED
    BY <1>10, <2>1, <2>2, Zenon
<1>12. ASSUME NEW k \in K PROVE k + 1 \in K
  <2>1. SUFFICES ASSUME k + 1 <= n
                 PROVE  F[k+1] \in Seq(W) /\ IsKept(F[k+1], s, S, k + 1)
    OBVIOUS
  <2>2. k \in Nat /\ F[k] \in Seq(W) /\ IsKept(F[k], s, S, k)
    BY <1>1, <1>12, <2>1
  <2>3. k + 1 \in 1..n /\ (k + 1) - 1 = k
    BY <1>1, <2>1, <2>2
  <2>4. F[k+1] = Next1(F[k], k + 1)
    <3>. HIDE DEF Next1
    <3>. QED
      BY <1>10, <2>3
  <2>5. F[k+1] = IF s[k+1] \in S THEN Append(F[k], s[k+1]) ELSE F[k]
    BY <2>4
  <2>6. QED
    BY <2>1, <2>2, <2>5, KeepOne
<1>13. K = Nat
  <2>1. K \in SUBSET Nat
    OBVIOUS
  <2>. HIDE DEF K
  <2>2. QED
    BY <1>11, <1>12, <2>1, Induction
<1>14. n \in K
  BY <1>1, <1>13
<1>15. QED
  BY <1>1, <1>9, <1>14

(* No total exceeds the number of elements times the largest.              *)
LEMMA TotalAtMost ==
  ASSUME NEW s \in Seq(Nat), NEW c \in Nat, \A i \in 1..Len(s) : s[i] <= c
  PROVE  Total(s) \in Nat /\ Total(s) <= c * Len(s)
<1>. DEFINE n == Len(s)
            S == SumOf(s)
            K == {k \in Nat : k <= n => S[k] <= c * k}
<1>1. /\ S \in [0..n -> Nat] /\ S[0] = 0
      /\ \A k \in 1..n : S[k] = S[k-1] + s[k]
  BY SumOfUnfolds DEF IsPrefixSum
<1>2. n \in Nat /\ \A k \in 1..n : s[k] \in Nat
  OBVIOUS
<1>. HIDE DEF S
<1>3. 0 \in K
  BY <1>1
<1>4. ASSUME NEW k \in K PROVE k + 1 \in K
  <2>1. SUFFICES ASSUME k + 1 <= n PROVE S[k+1] <= c * (k + 1)
    OBVIOUS
  <2>2. k \in Nat /\ k \in 0..n /\ k + 1 \in 1..n /\ (k + 1) - 1 = k
    BY <1>2, <1>4, <2>1
  <2>3. PICK a \in Nat, b \in Nat : a = S[k] /\ b = s[k+1]
    BY <1>1, <1>2, <2>2
  <2>4. S[k+1] = a + b
    BY <1>1, <2>2, <2>3
  <2>5. b <= c /\ a <= c * k
    BY <1>2, <1>4, <2>2, <2>3
  <2>6. c * (k + 1) = c * k + c /\ c * k \in Nat
    BY <2>2
  <2>7. QED
    BY <2>4, <2>5, <2>6
<1>5. K = Nat
  <2>1. K \in SUBSET Nat
    OBVIOUS
  <2>. HIDE DEF K
  <2>2. QED
    BY <1>3, <1>4, <2>1, Induction
<1>6. n \in K
  BY <1>2, <1>5
<1>7. S[n] <= c * n /\ S[n] \in Nat
  BY <1>1, <1>2, <1>6
<1>8. QED
  BY <1>7 DEF Total, S, n

(* A pool of three units per participant leaves nobody with nothing.       *)
LEMMA FloorPositive ==
  ASSUME NEW units \in Nat, NEW n \in Nat \ {0}, 3 * n <= units,
         NEW T \in Nat, T <= 150 * n, NEW w \in Nat, 50 <= w,
         NEW f \in Nat, units * w < f * T + T
  PROVE  f >= 1
<1>1. PICK a \in Nat, b \in Nat : units = 3 * n + a /\ w = 50 + b
  BY units - 3 * n \in Nat, w - 50 \in Nat
<1>2. units * w = 150 * n + (3 * n) * b + a * 50 + a * b
  BY <1>1
<1>3. (3 * n) * b \in Nat /\ a * 50 \in Nat /\ a * b \in Nat
  BY <1>1
<1>4. units * w >= T
  BY <1>2, <1>3
<1>5. SUFFICES ASSUME f = 0 PROVE FALSE
  OBVIOUS
<1>6. f * T = 0
  BY <1>5
<1>7. units * w \in Nat
  OBVIOUS
<1>8. QED
  BY <1>4, <1>6, <1>7

(* Every share is at least one unit and at most the pool.                  *)
LEMMA SharesCovered ==
  ASSUME NEW weights \in Divisible, NEW units \in Nat, 3 * Len(weights) <= units,
         \A i \in 1..Len(weights) : weights[i] \in 50..150
  PROVE  \A i \in 1..Len(weights) : Shares(weights, units)[i] \in 1..units
<1>. DEFINE n == Len(weights)
            T == Total(weights)
            floors == Floors(weights, units)
            shares == Shares(weights, units)
            r == Remainder(weights, units)
<1>1. SUFFICES ASSUME NEW i \in 1..n PROVE shares[i] \in 1..units
  OBVIOUS
<1>2. n \in Nat \ {0} /\ T \in Nat \ {0} /\ weights \in Seq(Nat) /\ weights[i] \in Nat
  BY TotalWeight
<1>3. \A k \in 1..n : weights[k] <= 150 /\ 50 <= weights[k]
  <2>. SUFFICES ASSUME NEW k \in 1..n PROVE weights[k] <= 150 /\ 50 <= weights[k]
    OBVIOUS
  <2>1. weights[k] \in 50..150
    OBVIOUS
  <2>2. \A x \in 50..150 : x <= 150 /\ 50 <= x
    OBVIOUS
  <2>3. QED
    BY <2>1, <2>2, Zenon
<1>4. T <= 150 * n
  BY <1>2, <1>3, TotalAtMost
<1>5. floors[i] \in Nat /\ units * weights[i] < floors[i] * T + T
  BY FloorBounds
<1>6. /\ shares[i] = floors[i] + (IF i = Highest(weights) THEN r ELSE 0) /\ r \in Nat
      /\ shares \in Seq(Nat) /\ Len(shares) = n
  BY SharesAre
<1>7. shares[i] <= units
  <2>1. Total(shares) = units
    BY SharesExact DEF DividesExactly
  <2>2. shares[i] <= Total(shares)
    <3>. HIDE DEF shares, n
    <3>. QED
      BY <1>6, ElementWithinTotal
  <2>3. QED
    BY <2>1, <2>2
<1>8. floors[i] >= 1
  <2>1. 50 <= weights[i] /\ 3 * n <= units
    BY <1>3, Zenon
  <2>. HIDE DEF T, floors, n
  <2>2. QED
    BY <1>2, <1>4, <1>5, <2>1, FloorPositive
<1>. HIDE DEF floors, shares, r, n
<1>9. QED
  BY <1>5, <1>6, <1>7, <1>8

(* What the hook and the program are given: entries of the program's type, *)
(* for distinct wallets among those that are paid, or the creator.         *)
IsPlan(plan, wallets) ==
    /\ plan \in Seq(Program!Entry) /\ plan # <<>>
    /\ Recipients(plan) \subseteq Range(wallets) \cup {Creator}
    /\ RewardType = "weighted" => Recipients(plan) \subseteq Range(wallets)
    /\ Distinct([i \in 1..Len(plan) |-> plan[i].to])

(* The entries of a plan are among those the program takes.                *)
LEMMA EntryIs ==
  ASSUME NEW w \in Wallets \cup {Creator}, NEW a \in Nat
  PROVE  /\ Entry(w, a) \in Program!Entry
         /\ Entry(w, a).to = w /\ Entry(w, a).amount = a
  BY DEF Entry, Program!Entry, Program!Payees

(* The fields of the entries of a batch.                                   *)
LEMMA EntryFields ==
  ASSUME NEW e \in Program!Entry
  PROVE  e.to \in Wallets \cup {Creator} /\ e.amount \in Nat
  BY DEF Program!Entry, Program!Payees

(* The wallets a plan is made for.                                         *)
LEMMA WalletsOf ==
  ASSUME NEW wallets \in Seq(Wallets), wallets # <<>>
  PROVE  /\ Len(wallets) \in Nat \ {0}
         /\ Range(wallets) \subseteq Wallets
         /\ \A i \in 1..Len(wallets) : wallets[i] \in Range(wallets)
<1>1. Len(wallets) \in Nat \ {0}
  BY EmptySeq, LenProperties
<1>2. \A i \in 1..Len(wallets) : wallets[i] \in Wallets
  OBVIOUS
<1>3. QED
  BY <1>1, <1>2 DEF Range

(* The weighted plan: one entry per wallet, and the amounts are the shares *)
(* of the whole pool.                                                      *)
LEMMA WeightedPlanIs ==
  ASSUME NEW wallets \in Seq(Wallets), wallets # <<>>, Distinct(wallets), NEW units \in Nat
  PROVE  /\ IsPlan(WeightedPlan(wallets, units), wallets)
         /\ Len(WeightedPlan(wallets, units)) = Len(wallets)
         /\ Total(Amounts(WeightedPlan(wallets, units))) = units
         /\ Len(wallets) <= Cardinality(Wallets) /\ 3 * Cardinality(Wallets) <= units =>
              \A i \in 1..Len(wallets) : WeightedPlan(wallets, units)[i].amount \in 1..units
<1>. DEFINE n == Len(wallets)
            badge == [i \in 1..n |-> Tier[wallets[i]]]
            weights == [i \in 1..n |-> Weight(Tier[wallets[i]])]
            shares == Shares(weights, units)
            plan == WeightedPlan(wallets, units)
<1>1. n \in Nat \ {0} /\ \A i \in 1..n : wallets[i] \in Wallets /\ wallets[i] \in Range(wallets)
  BY WalletsOf
<1>2. weights \in Divisible /\ Len(weights) = n
  <2>1. weights = [i \in 1..n |-> Weight(badge[i])]
    OBVIOUS
  <2>. HIDE DEF n, badge, weights
  <2>2. QED
    BY <1>1, <2>1, WeightsAreDivisible
<1>3. \A i \in 1..n : weights[i] \in 50..150
  BY WeightBounds
<1>4. plan = [i \in 1..n |-> Entry(wallets[i], shares[i])]
  BY DEF WeightedPlan
<1>. HIDE DEF weights, badge, n
<1>5. shares \in Seq(Nat) /\ Len(shares) = n
  BY <1>2, SharesAre
<1>6. Total(shares) = units
  BY <1>2, SharesExact DEF DividesExactly
<1>7. Len(wallets) <= Cardinality(Wallets) /\ 3 * Cardinality(Wallets) <= units =>
        \A i \in 1..n : shares[i] \in 1..units
  <2>1. SUFFICES ASSUME n <= Cardinality(Wallets), 3 * Cardinality(Wallets) <= units
                 PROVE  \A i \in 1..n : shares[i] \in 1..units
    BY DEF n
  <2>2. Cardinality(Wallets) \in Nat
    BY ConstantsAssumption, FS_CardinalityType
  <2>3. 3 * Len(weights) <= units
    BY <1>1, <1>2, <2>1, <2>2
  <2>4. \A i \in 1..Len(weights) : weights[i] \in 50..150
    BY <1>2, <1>3
  <2>. HIDE DEF shares
  <2>5. QED
    BY <1>2, <2>3, <2>4, SharesCovered DEF shares
<1>. HIDE DEF shares, plan
<1>8. ASSUME NEW i \in 1..n
      PROVE  /\ plan[i] \in Program!Entry
             /\ plan[i].to = wallets[i] /\ plan[i].amount = shares[i]
  <2>1. shares[i] \in Nat /\ wallets[i] \in Wallets \cup {Creator}
    BY <1>1, <1>5
  <2>2. PICK w \in Wallets \cup {Creator}, a \in Nat : w = wallets[i] /\ a = shares[i]
    BY <2>1
  <2>3. plan[i] = Entry(w, a)
    BY <1>4, <2>2
  <2>4. /\ Entry(w, a) \in Program!Entry
        /\ Entry(w, a).to = w /\ Entry(w, a).amount = a
    BY EntryIs
  <2>5. QED
    BY <2>2, <2>3, <2>4
<1>9. plan \in Seq(Program!Entry) /\ Len(plan) = n
  <2>1. plan \in [1..n -> Program!Entry]
    BY <1>4, <1>8
  <2>2. QED
    BY <1>1, <2>1, FunctionIsSeq
<1>10. plan # <<>>
  BY <1>1, <1>9
<1>11. Recipients(plan) \subseteq Range(wallets)
  BY <1>1, <1>8, <1>9 DEF Recipients
<1>12. Distinct([i \in 1..Len(plan) |-> plan[i].to])
  <2>. DEFINE tos == [i \in 1..n |-> plan[i].to]
  <2>1. \A i \in 1..n : tos[i] = wallets[i]
    BY <1>8
  <2>2. Len(tos) = n
    <3>1. tos \in [1..n -> Wallets]
      BY <1>1, <2>1
    <3>. HIDE DEF tos
    <3>2. QED
      BY <1>1, <3>1, FunctionIsSeq
  <2>3. \A i, j \in 1..n : wallets[i] = wallets[j] => i = j
    BY DEF Distinct, n
  <2>4. Distinct(tos)
    <3>. HIDE DEF tos
    <3>. QED
      BY <2>1, <2>2, <2>3 DEF Distinct
  <2>5. QED
    BY <1>9, <2>4
<1>13. Amounts(plan) = shares
  <2>1. shares = [i \in 1..n |-> shares[i]]
    BY <1>5
  <2>2. Amounts(plan) = [i \in 1..n |-> shares[i]]
    BY <1>8, <1>9 DEF Amounts
  <2>3. QED
    BY <2>1, <2>2
<1>14. QED
  BY <1>6, <1>7, <1>8, <1>9, <1>10, <1>11, <1>12, <1>13 DEF IsPlan, plan, n

(* The even split of a lucky draw, and what it leaves over.                *)
LEMMA EvenSplit ==
  ASSUME NEW units \in Nat, NEW winners \in Nat \ {0}
  PROVE  /\ PerWinner(units, winners) \in Nat /\ PerWinner(units, winners) <= units
         /\ Leftover(units, winners) \in Nat /\ Leftover(units, winners) <= units
         /\ winners <= units => PerWinner(units, winners) >= 1
<1>. DEFINE q == units \div winners
<1>1. q \in Nat /\ q * winners <= units /\ units < q * winners + winners
  BY DivBounds
<1>. HIDE DEF q
<1>2. PICK m \in Nat : winners = m + 1
  BY winners - 1 \in Nat
<1>3. q * winners = q * m + q /\ q * m \in Nat /\ winners * q = q * winners
  BY <1>1, <1>2
<1>4. q <= units
  BY <1>1, <1>3
<1>5. units - winners * q \in Nat /\ units - winners * q <= units
  BY <1>1, <1>3
<1>6. ASSUME winners <= units PROVE q >= 1
  <2>1. SUFFICES ASSUME q = 0 PROVE FALSE
    BY <1>1
  <2>2. q * winners = 0
    BY <2>1
  <2>3. QED
    BY <1>1, <1>6, <2>2
<1>7. QED
  BY <1>1, <1>4, <1>5, <1>6 DEF PerWinner, Leftover, q

(* A lucky draw: equal parts for distinct winners, then at most one entry, *)
(* the creator's, for what does not divide.                                *)
LEMMA LuckyPlanIs ==
  ASSUME NEW wallets \in Seq(Wallets), wallets # <<>>, NEW units \in Nat,
         RewardType # "weighted", NEW plan \in LuckyPlans(wallets, units)
  PROVE  /\ IsPlan(plan, wallets)
         /\ WantedWinners <= units => \A i \in 1..Len(plan) : plan[i].amount \in 1..units
<1>. DEFINE n == Len(wallets)
            winners == NumWinners(WantedWinners, n)
            q == PerWinner(units, winners)
            leftover == Leftover(units, winners)
            tail == IF leftover > 0 THEN <<Entry(Creator, leftover)>> ELSE <<>>
            first(draw) == [i \in 1..winners |-> Entry(draw[i], q)]
<1>1. /\ n \in Nat \ {0} /\ Range(wallets) \subseteq Wallets
  BY WalletsOf
<1>2. winners \in Nat \ {0} /\ winners <= WantedWinners /\ WantedWinners \in Nat
  BY <1>1, ConstantsAssumption DEF NumWinners
<1>3. PICK draw \in Orders(Range(wallets), winners) : plan = first(draw) \o tail
  <2>1. plan \in {first(draw) \o tail : draw \in Orders(Range(wallets), winners)}
    BY DEF LuckyPlans
  <2>. HIDE DEF first, tail, winners
  <2>2. QED
    BY <2>1
<1>4. /\ \A i \in 1..winners : draw[i] \in Range(wallets) /\ draw[i] \in Wallets
      /\ \A i, j \in 1..winners : draw[i] = draw[j] => i = j
  BY <1>1, <1>3 DEF Orders
<1>. HIDE DEF winners, n
<1>5. /\ q \in Nat /\ q <= units /\ leftover \in Nat /\ leftover <= units
      /\ winners <= units => q >= 1
  BY <1>2, EvenSplit
<1>. HIDE DEF q, leftover
<1>. DEFINE f == first(draw)
<1>6. f \in Seq(Program!Entry) /\ Len(f) = winners
  <2>1. ASSUME NEW i \in 1..winners PROVE Entry(draw[i], q) \in Program!Entry
    BY <1>4, <1>5, EntryIs
  <2>2. f \in [1..winners -> Program!Entry]
    BY <2>1
  <2>. HIDE DEF f
  <2>3. QED
    BY <1>2, <2>2, FunctionIsSeq
<1>7. \A i \in 1..winners : f[i].to = draw[i] /\ f[i].amount = q
  BY <1>4, <1>5, EntryIs
<1>8. /\ Entry(Creator, leftover) \in Program!Entry
      /\ Entry(Creator, leftover).to = Creator /\ Entry(Creator, leftover).amount = leftover
  BY <1>5, EntryIs
<1>. DEFINE m == IF leftover > 0 THEN winners + 1 ELSE winners
<1>. HIDE DEF f
<1>9. /\ plan \in Seq(Program!Entry) /\ Len(plan) = m
      /\ \A i \in 1..winners : plan[i] = f[i]
      /\ leftover > 0 => plan[winners + 1] = Entry(Creator, leftover)
  <2>1. plan = f \o tail
    BY <1>3 DEF f
  <2>2. CASE leftover > 0
    <3>1. tail = <<Entry(Creator, leftover)>>
      BY <2>2
    <3>2. plan = Append(f, Entry(Creator, leftover))
      <4>. HIDE DEF tail
      <4>. QED
        BY <1>6, <1>8, <2>1, <3>1
    <3>3. QED
      BY <1>2, <1>6, <1>8, <2>2, <3>2
  <2>3. CASE ~(leftover > 0)
    <3>1. tail = <<>>
      BY <2>3
    <3>2. plan = f
      <4>. HIDE DEF tail
      <4>. QED
        BY <1>6, <2>1, <3>1
    <3>3. QED
      BY <1>2, <1>6, <2>3, <3>2
  <2>4. QED
    BY <2>2, <2>3
<1>10. ASSUME NEW i \in 1..m
       PROVE  \/ i \in 1..winners /\ plan[i].to = draw[i] /\ plan[i].amount = q
              \/ /\ i = winners + 1 /\ leftover > 0
                 /\ plan[i].to = Creator /\ plan[i].amount = leftover
  <2>1. CASE i \in 1..winners
    BY <1>7, <1>9, <2>1
  <2>2. CASE i \notin 1..winners
    <3>1. i = winners + 1 /\ leftover > 0
      BY <1>2, <2>2
    <3>2. QED
      BY <1>8, <1>9, <3>1
  <2>3. QED
    BY <2>1, <2>2
<1>11. m \in Nat \ {0}
  BY <1>2
<1>. HIDE DEF m
<1>12. plan # <<>>
  BY <1>9, <1>11
<1>13. Recipients(plan) \subseteq Range(wallets) \cup {Creator}
  <2>1. SUFFICES ASSUME NEW i \in 1..m PROVE plan[i].to \in Range(wallets) \cup {Creator}
    BY <1>9 DEF Recipients
  <2>2. QED
    BY <1>4, <1>10
<1>14. Distinct([i \in 1..Len(plan) |-> plan[i].to])
  <2>. DEFINE tos == [i \in 1..m |-> plan[i].to]
  <2>1. Len(tos) = m
    <3>1. tos \in [1..m -> {plan[i].to : i \in 1..m}]
      OBVIOUS
    <3>. HIDE DEF tos
    <3>2. QED
      BY <1>11, <3>1, FunctionIsSeq
  <2>2. ASSUME NEW i \in 1..m, NEW j \in 1..m, plan[i].to = plan[j].to PROVE i = j
    <3>1. Creator \notin Wallets
      BY ConstantsAssumption
    <3>2. CASE i \in 1..winners /\ j \in 1..winners
      <4>1. plan[i].to = draw[i] /\ plan[j].to = draw[j]
        BY <1>7, <1>9, <3>2
      <4>2. QED
        BY <1>4, <2>2, <3>2, <4>1
    <3>3. CASE i \in 1..winners /\ j \notin 1..winners
      <4>1. plan[i].to = draw[i] /\ plan[j].to = Creator
        BY <1>7, <1>9, <1>10, <3>3
      <4>2. QED
        BY <1>4, <2>2, <3>1, <3>3, <4>1
    <3>4. CASE i \notin 1..winners /\ j \in 1..winners
      <4>1. plan[j].to = draw[j] /\ plan[i].to = Creator
        BY <1>7, <1>9, <1>10, <3>4
      <4>2. QED
        BY <1>4, <2>2, <3>1, <3>4, <4>1
    <3>5. CASE i \notin 1..winners /\ j \notin 1..winners
      BY <1>10, <3>5
    <3>6. QED
      BY <3>2, <3>3, <3>4, <3>5
  <2>3. Distinct(tos)
    <3>1. \A i \in 1..m : tos[i] = plan[i].to
      OBVIOUS
    <3>. HIDE DEF tos
    <3>2. QED
      BY <2>1, <2>2, <3>1 DEF Distinct
  <2>4. QED
    BY <1>9, <2>3
<1>15. ASSUME WantedWinners <= units, NEW i \in 1..Len(plan)
       PROVE  plan[i].amount \in 1..units
  <2>1. winners <= units /\ i \in 1..m
    BY <1>2, <1>9, <1>15
  <2>2. CASE plan[i].amount = q
    BY <1>5, <2>1, <2>2
  <2>3. CASE plan[i].amount = leftover /\ leftover > 0
    BY <1>5, <2>3
  <2>4. QED
    BY <1>10, <2>1, <2>2, <2>3
<1>16. QED
  BY <1>9, <1>12, <1>13, <1>14, <1>15 DEF IsPlan

(* Whatever the reward type, a plan is one the program can be given.       *)
LEMMA PlansAre ==
  ASSUME NEW wallets \in Seq(Wallets), wallets # <<>>, Distinct(wallets), NEW units \in Nat,
         NEW plan \in Plans(wallets, units)
  PROVE  IsPlan(plan, wallets)
<1>1. CASE RewardType = "weighted"
  BY <1>1, WeightedPlanIs DEF Plans
<1>2. CASE RewardType # "weighted"
  BY <1>2, LuckyPlanIs DEF Plans
<1>3. QED
  BY <1>1, <1>2

(* A plan of the whole pool gives every recipient something.               *)
LEMMA PlansPaySomething ==
  ASSUME NEW wallets \in Seq(Wallets), wallets # <<>>, Distinct(wallets),
         Len(wallets) <= Cardinality(Wallets), PoolCoversEveryShare,
         NEW plan \in Plans(wallets, Pool)
  PROVE  \A i \in 1..Len(plan) : plan[i].amount \in 1..Pool
<1>1. Pool \in Nat
  BY ConstantsAssumption
<1>2. CASE RewardType = "weighted"
  BY <1>1, <1>2, WeightedPlanIs DEF Plans, PoolCoversEveryShare
<1>3. CASE RewardType # "weighted"
  BY <1>1, <1>3, LuckyPlanIs DEF Plans, PoolCoversEveryShare
<1>4. QED
  BY <1>2, <1>3

-----------------------------------------------------------------------------
(***************************************************************************)
(* The chain under the payout                                              *)
(***************************************************************************)

(* The loops of EscrowProgram are those of Payout's instance of it.        *)
LEMMA SameProgram ==
  /\ Program!Entry = Facts!Entry
  /\ \A balance, batch : Program!Moved(balance, batch) = Facts!Moved(balance, batch)
  /\ \A balance, batch : Program!TotalMoved(balance, batch) = Facts!TotalMoved(balance, batch)
  /\ \A balance, batch, payee :
        Program!Credit(balance, batch, payee) = Facts!Credit(balance, batch, payee)
<1>1. Program!Entry = Facts!Entry
  BY DEF Program!Entry, Facts!Entry, Program!Payees, Facts!Payees
<1>2. ASSUME NEW balance, NEW batch
      PROVE  Program!Moved(balance, batch) = Facts!Moved(balance, batch)
  BY DEF Program!Moved, Facts!Moved, Program!Skips, Facts!Skips
<1>3. ASSUME NEW balance, NEW batch, NEW payee
      PROVE  Program!Credit(balance, batch, payee) = Facts!Credit(balance, batch, payee)
  BY <1>2 DEF Program!Credit, Facts!Credit, Program!Received, Facts!Received
<1>4. ASSUME NEW balance, NEW batch
      PROVE  Program!TotalMoved(balance, batch) = Facts!TotalMoved(balance, batch)
  BY <1>2 DEF Program!TotalMoved, Facts!TotalMoved
<1>5. QED
  BY <1>1, <1>2, <1>3, <1>4

(* A batch moves at most the balance, and credits at most what it moves.   *)
LEMMA BatchBounds ==
  ASSUME NEW balance \in Nat, NEW batch \in Seq(Program!Entry)
  PROVE  /\ Program!TotalMoved(balance, batch) \in 0..balance
         /\ \A payee : Program!Credit(balance, batch, payee)
                         \in 0..Program!TotalMoved(balance, batch)
<1>1. batch \in Seq(Facts!Entry)
  BY SameProgram
<1>2. Facts!TotalMoved(balance, batch) \in 0..balance
  BY <1>1, ProgramAssumptions, Facts!TotalMovedBounded
<1>3. \A payee : Facts!Credit(balance, batch, payee) \in 0..Facts!TotalMoved(balance, batch)
  BY <1>1, ProgramAssumptions, Facts!CreditBounded
<1>4. QED
  BY <1>2, <1>3, SameProgram

(* moved[i] is what the first i entries of a batch have taken.             *)
IsMoved(moved, balance, batch) ==
    /\ moved \in [0..Len(batch) -> 0..balance]
    /\ moved[0] = 0
    /\ \A i \in 1..Len(batch) :
          moved[i] = IF batch[i].amount = 0 \/ balance < moved[i-1] + batch[i].amount
                     THEN moved[i-1] ELSE moved[i-1] + batch[i].amount

(* The payout loop runs.                                                   *)
LEMMA MovedIs ==
  ASSUME NEW balance \in Nat, NEW batch \in Seq(Program!Entry)
  PROVE  IsMoved(Program!Moved(balance, batch), balance, batch)
<1>1. batch \in Seq(Facts!Entry)
  BY SameProgram
<1>2. PICK m : m = Facts!Moved(balance, batch)
  OBVIOUS
<1>3. m = [i \in 0..Len(batch) |->
             IF i = 0 THEN 0
             ELSE IF Facts!Skips(balance, m[i-1], batch[i].amount)
                  THEN m[i-1]
             ELSE m[i-1] + batch[i].amount]
  BY <1>1, <1>2, ProgramAssumptions, Facts!MovedUnfolds
<1>4. \A i \in 0..Len(batch) : m[i] \in 0..balance
  BY <1>1, <1>2, ProgramAssumptions, Facts!MovedBounded
<1>5. PICK n \in Nat : n = Len(batch)
  OBVIOUS
<1>6. m[0] = 0
  BY <1>3, <1>5
<1>7. ASSUME NEW i \in 1..n
      PROVE  m[i] = IF batch[i].amount = 0 \/ balance < m[i-1] + batch[i].amount
                    THEN m[i-1] ELSE m[i-1] + batch[i].amount
  <2>1. i \in 0..n /\ i # 0
    OBVIOUS
  <2>2. m[i] = IF Facts!Skips(balance, m[i-1], batch[i].amount)
               THEN m[i-1] ELSE m[i-1] + batch[i].amount
    BY <1>3, <1>5, <2>1
  <2>3. QED
    BY <2>2 DEF Facts!Skips
<1>8. m \in [0..n -> 0..balance]
  <2>1. PICK M : M = [i \in 0..n |-> m[i]]
    OBVIOUS
  <2>2. m = M
    <3>1. DOMAIN m = 0..n /\ m = [i \in DOMAIN m |-> m[i]]
      BY <1>3, <1>5
    <3>2. QED
      BY <2>1, <3>1
  <2>3. QED
    BY <1>4, <1>5, <2>1, <2>2
<1>9. m = Program!Moved(balance, batch)
  BY <1>2, SameProgram
<1>10. QED
  BY <1>5, <1>6, <1>7, <1>8, <1>9 DEF IsMoved

(* A batch whose first entry fits in the vault moves something.            *)
LEMMA FirstEntryPays ==
  ASSUME NEW balance \in Nat, NEW batch \in Seq(Program!Entry),
         Len(batch) > 0, batch[1].amount \in 1..balance
  PROVE  Program!TotalMoved(balance, batch) > 0
<1>1. PICK m : m = Program!Moved(balance, batch)
  OBVIOUS
<1>2. IsMoved(m, balance, batch)
  BY <1>1, MovedIs
<1>3. PICK n \in Nat \ {0} : n = Len(batch)
  OBVIOUS
<1>4. /\ m \in [0..n -> 0..balance]
      /\ \A i \in 1..n : batch[i].amount \in Nat
      /\ \A i \in 1..n : m[i] = IF batch[i].amount = 0 \/ balance < m[i-1] + batch[i].amount
                               THEN m[i-1] ELSE m[i-1] + batch[i].amount
  <2>1. \A i \in 1..n : batch[i] \in Program!Entry
    BY <1>3, ElementOfSeq
  <2>2. QED
    BY <1>2, <1>3, <2>1, EntryFields DEF IsMoved
<1>5. m[1] > 0
  <2>1. m[0] = 0 /\ 1 \in 1..n /\ 1 - 1 = 0
    BY <1>2 DEF IsMoved
  <2>2. m[1] = IF batch[1].amount = 0 \/ balance < m[0] + batch[1].amount
               THEN m[0] ELSE m[0] + batch[1].amount
    BY <1>4, <2>1
  <2>3. QED
    BY <2>1, <2>2
<1>. DEFINE K == {k \in Nat : k + 1 <= n => m[k + 1] > 0}
<1>6. 0 \in K
  BY <1>5
<1>7. ASSUME NEW k \in K PROVE k + 1 \in K
  <2>1. CASE k + 2 <= n
    <3>1. m[k + 1] > 0 /\ k + 2 \in 1..n /\ k + 1 \in 0..n /\ (k + 2) - 1 = k + 1
      BY <2>1
    <3>2. m[k + 2] >= m[k + 1]
      <4>1. PICK a \in Nat, b \in Nat, c \in Nat :
               a = m[k + 1] /\ b = m[k + 2] /\ c = batch[k + 2].amount
        <5>1. m[k + 1] \in 0..balance /\ m[k + 2] \in 0..balance
          BY <1>4, <3>1
        <5>2. batch[k + 2].amount \in Nat
          BY <1>4, <3>1
        <5>3. QED
          BY <5>1, <5>2
      <4>2. b = IF c = 0 \/ balance < a + c THEN a ELSE a + c
        BY <1>4, <3>1, <4>1
      <4>3. QED
        BY <4>1, <4>2
    <3>3. m[k + 1] \in Nat /\ m[k + 2] \in Nat
      BY <1>4, <3>1
    <3>4. QED
      BY <3>1, <3>2, <3>3
  <2>2. CASE ~(k + 2 <= n)
    BY <2>2
  <2>3. QED
    BY <2>1, <2>2
<1>8. K = Nat
  <2>. HIDE DEF K
  <2>. QED
    BY <1>6, <1>7, Induction, K \subseteq Nat DEF K
<1>9. m[n] > 0
  <2>1. n - 1 \in K
    <3>. HIDE DEF K
    <3>. QED
      BY <1>8
  <2>2. QED
    BY <2>1
<1>10. QED
  BY <1>1, <1>3, <1>9 DEF Program!TotalMoved

(* The k-th slice of a plan.                                               *)
LEMMA BatchIs ==
  ASSUME NEW S, NEW plan \in Seq(S), NEW k \in Nat \ {0}
  PROVE  /\ Batch(plan, k) \in Seq(S)
         /\ Least(k * BatchSize, Len(plan)) \in Nat
         /\ Least(k * BatchSize, Len(plan)) <= Len(plan)
         /\ (k - 1) * BatchSize \in Nat /\ k * BatchSize = (k - 1) * BatchSize + BatchSize
         /\ Len(Batch(plan, k)) =
              IF (k - 1) * BatchSize < Least(k * BatchSize, Len(plan))
              THEN Least(k * BatchSize, Len(plan)) - (k - 1) * BatchSize ELSE 0
         /\ \A i \in 1..Len(Batch(plan, k)) : Batch(plan, k)[i] = plan[(k - 1) * BatchSize + i]
<1>. DEFINE lo == (k - 1) * BatchSize
            hi == Least(k * BatchSize, Len(plan))
<1>1. lo \in Nat /\ BatchSize \in Nat \ {0} /\ k * BatchSize = lo + BatchSize
  <2>1. BatchSize \in Nat \ {0}
    BY ConstantsAssumption
  <2>2. PICK m \in Nat : k = m + 1
    BY k - 1 \in Nat
  <2>3. m * BatchSize \in Nat /\ (m + 1) * BatchSize = m * BatchSize + BatchSize /\ k - 1 = m
    BY <2>1, <2>2
  <2>4. QED
    BY <2>1, <2>2, <2>3
<1>2. hi \in Nat /\ hi <= Len(plan)
  <2>1. k * BatchSize \in Nat /\ Len(plan) \in Nat
    BY <1>1
  <2>2. QED
    BY <2>1 DEF Least
<1>. HIDE DEF hi, lo
<1>3. \A i \in lo+1..hi : plan[i] \in S
  <2>1. SUFFICES ASSUME NEW i \in lo+1..hi PROVE plan[i] \in S
    OBVIOUS
  <2>2. i \in 1..Len(plan)
    BY <1>1, <1>2
  <2>3. QED
    BY <2>2
<1>4. Batch(plan, k) = SubSeq(plan, lo + 1, hi)
  BY DEF Batch, lo, hi
<1>. DEFINE b == SubSeq(plan, lo + 1, hi)
<1>5. /\ b \in Seq(S)
      /\ Len(b) = IF lo + 1 <= hi THEN hi - (lo + 1) + 1 ELSE 0
      /\ \A i \in 1..hi - (lo + 1) + 1 : b[i] = plan[(lo + 1) + i - 1]
  <2>1. lo + 1 \in Int /\ hi \in Int
    BY <1>1, <1>2
  <2>2. QED
    BY <1>3, <2>1, SubSeqProperties
<1>. HIDE DEF b
<1>6. Len(b) = IF lo < hi THEN hi - lo ELSE 0
  BY <1>1, <1>2, <1>5
<1>7. ASSUME NEW i \in 1..Len(b) PROVE b[i] = plan[lo + i]
  <2>1. i \in 1..hi - (lo + 1) + 1 /\ (lo + 1) + i - 1 = lo + i
    BY <1>1, <1>2, <1>6
  <2>2. QED
    BY <1>5, <2>1
<1>8. Batch(plan, k) = b
  BY <1>4 DEF b
<1>9. QED
  BY <1>1, <1>2, <1>5, <1>6, <1>7, <1>8 DEF lo, hi

(* A batch has landed: its session, accepted by the program, pays.         *)
Pays(t) ==
    /\ session[t].at = "sent"
    /\ Accepted(CurrentBatch(t))
    /\ Program!PayBatch(vault, CurrentBatch(t))

(* The escrow is swept, and for tokens its account closed.                 *)
Sweeps ==
    /\ status = "inactive" /\ Program!Sweep
    /\ IF currency = "SPL" THEN tokenVaultOpen /\ tokenVaultOpen' = FALSE
                           ELSE vault > 0 /\ UNCHANGED tokenVaultOpen

(* The program is left alone, closed, paying a batch or swept.             *)
LEMMA ChainSteps ==
  ASSUME ChainConsistent, [Next]_vars
  PROVE  \/ UNCHANGED chain
         \/ Program!CloseSurvey(Creator)
         \/ \E t \in Tabs : Pays(t)
         \/ Sweeps /\ \E t \in Tabs : session[t].at = "sweep"
<1>1. currency \in {"SOL", "SPL"} /\ tokenVaultOpen \in BOOLEAN
  BY DEF ChainConsistent, Program!TypeOK, Program!Currency
<1>2. CASE UNCHANGED vars
  BY <1>2 DEF vars
<1>3. ASSUME NEW w \in Wallets,
             \/ ReserveSlot(w) \/ CreateResponse(w)
             \/ \E verdict \in {"clean", "flagged", "rejected"} : ModerateResponse(w, verdict)
      PROVE  UNCHANGED chain
  BY <1>3 DEF ReserveSlot, CreateResponse, ModerateResponse
<1>4. ASSUME NEW t \in Tabs, SendClose(t)
      PROVE  Program!CloseSurvey(Creator) \/ UNCHANGED chain
  BY <1>4 DEF SendClose, CloseSurveyTx
<1>5. ASSUME NEW t \in Tabs, LandBatch(t)
      PROVE  Pays(t) \/ UNCHANGED chain
  <2>1. CASE currency = "SOL" /\ Program!DistributeRewards(Creator, CurrentBatch(t))
    BY <1>5, <2>1 DEF LandBatch, Pays, Accepted, Program!DistributeRewards, Program!LamportVault
  <2>2. CASE currency = "SPL" /\ Program!DistributeRewardsSpl(Creator, CurrentBatch(t))
    BY <1>5, <2>2 DEF LandBatch, Pays, Accepted, Program!DistributeRewardsSpl
  <2>3. QED
    BY <1>5, <2>1, <2>2 DEF LandBatch, DistributeTx, DistributeSplTx
<1>6. ASSUME NEW t \in Tabs, SweepEscrow(t)
      PROVE  (Sweeps /\ session[t].at = "sweep") \/ UNCHANGED chain
  <2>1. CASE currency = "SOL" /\ Program!CloseEscrow(Creator)
    BY <1>6, <2>1 DEF SweepEscrow, Sweeps, Program!CloseEscrow, Program!LamportVault
  <2>2. CASE currency = "SPL" /\ Program!CloseEscrowSpl(Creator)
    BY <1>6, <2>2 DEF SweepEscrow, Sweeps, Program!CloseEscrowSpl
  <2>3. QED
    BY <1>6, <2>1, <2>2 DEF SweepEscrow, SweepRefused, CloseEscrowTx, CloseEscrowSplTx
<1>7. ASSUME NEW t \in Tabs,
             \/ PressDistribute(t) \/ Refuse(t) \/ Abandon(t) \/ Reload(t)
             \/ ConfirmClose(t) \/ ReadResponses(t) \/ ReadBalance(t)
             \/ RecoverMark(t) \/ RecoverLosers(t) \/ RecoverFlag(t)
             \/ SendBatch(t) \/ LoadForm(t) \/ ValidateWallets(t)
             \/ MarkBatch(t) \/ CountRemaining(t) \/ MarkRemaining(t) \/ Recount(t)
             \/ FlagDistributed(t) \/ BuildSweep(t) \/ ConfirmSweep(t)
      PROVE  UNCHANGED chain
  BY <1>7 DEF PressDistribute, Refuse, Abandon, Reload, ConfirmClose, ReadResponses, ReadBalance,
       RecoverMark, RecoverLosers, RecoverFlag, SendBatch, LoadForm, ValidateWallets, MarkBatch,
       CountRemaining, MarkRemaining, Recount, FlagDistributed, BuildSweep, ConfirmSweep
<1>8. QED
  BY <1>2, <1>3, <1>4, <1>5, <1>6, <1>7 DEF Next, TabStep, CodeStep, SignedStep

(* The batch of a session is one the program can be given.                 *)
LEMMA CurrentBatchType ==
  ASSUME session \in [Tabs -> Session], NEW t \in Tabs
  PROVE  /\ session[t].plan \in Seq(Program!Entry) /\ session[t].batch \in Nat \ {0}
         /\ CurrentBatch(t) \in Seq(Program!Entry)
<1>1. session[t].plan \in Seq(Program!Entry) /\ session[t].batch \in Nat \ {0}
  BY DEF Session
<1>2. QED
  BY <1>1, BatchIs DEF CurrentBatch

(* A payment takes from the vault what it adds to `distributed`.           *)
LEMMA PaysEffect ==
  ASSUME ChainConsistent, session \in [Tabs -> Session], NEW t \in Tabs, Pays(t)
  PROVE  /\ vault' \in 0..vault
         /\ vault' = vault - Program!TotalMoved(vault, CurrentBatch(t))
         /\ distributed' = distributed + (vault - vault')
         /\ distributed' \in Nat /\ distributed' >= distributed
         /\ distributed' > distributed <=> Program!TotalMoved(vault, CurrentBatch(t)) > 0
         /\ distributed' > distributed => vault > 0
         /\ distributed' # distributed => distributed' > distributed
         /\ status' = "inactive"
         /\ paid' = [p \in Program!Payees |->
                        paid[p] + Program!Credit(vault, CurrentBatch(t), p)]
         /\ paid' \in [Program!Payees -> Nat]
         /\ UNCHANGED <<currency, maxResponses, responseCount, participants,
                        tokenVaultOpen, deposited, fees, swept>>
<1>. DEFINE batch == CurrentBatch(t)
<1>1. batch \in Seq(Program!Entry)
  BY CurrentBatchType
<1>2. vault \in Nat /\ distributed \in Nat /\ paid \in [Program!Payees -> Nat]
  BY DEF ChainConsistent, Program!TypeOK, Program!Solvency
<1>. HIDE DEF batch
<1>3. /\ Program!TotalMoved(vault, batch) \in 0..vault
      /\ \A p \in Program!Payees : Program!Credit(vault, batch, p) \in Nat
  <2>1. /\ Program!TotalMoved(vault, batch) \in 0..vault
        /\ \A p : Program!Credit(vault, batch, p) \in 0..Program!TotalMoved(vault, batch)
    BY <1>1, <1>2, BatchBounds
  <2>2. QED
    BY <2>1
<1>4. /\ vault' = vault - Program!TotalMoved(vault, batch)
      /\ distributed' = distributed + Program!TotalMoved(vault, batch)
      /\ paid' = [p \in Program!Payees |-> paid[p] + Program!Credit(vault, batch, p)]
      /\ status' = "inactive"
      /\ UNCHANGED <<currency, maxResponses, responseCount, participants,
                     tokenVaultOpen, deposited, fees, swept>>
  BY DEF Pays, Program!PayBatch, batch
<1>5. paid' \in [Program!Payees -> Nat]
  BY <1>2, <1>3, <1>4
<1>6. /\ vault' \in 0..vault /\ distributed' = distributed + (vault - vault')
      /\ distributed' \in Nat /\ distributed' >= distributed
      /\ distributed' > distributed <=> Program!TotalMoved(vault, batch) > 0
      /\ distributed' > distributed => vault > 0
      /\ distributed' # distributed => distributed' > distributed
  BY <1>2, <1>3, <1>4
<1>7. QED
  BY <1>4, <1>5, <1>6 DEF batch

(* The ledger of the chain stays balanced.                                 *)
LEMMA ChainStep ==
  ASSUME ChainConsistent, session \in [Tabs -> Session], [Next]_vars
  PROVE  ChainConsistent'
<1>1. /\ status \in {"absent", "active", "inactive"} /\ currency \in {"SOL", "SPL"}
      /\ maxResponses \in Nat /\ responseCount \in Nat
      /\ participants \subseteq Program!Payees /\ tokenVaultOpen \in BOOLEAN
      /\ paid \in [Program!Payees -> Nat]
  BY DEF ChainConsistent, Program!TypeOK, Program!Currency
<1>2. /\ vault \in Nat /\ deposited \in Nat /\ distributed \in Nat /\ swept \in Nat
      /\ fees = 0 /\ deposited >= Pool /\ deposited = vault + distributed + fees + swept
      /\ status # "absent" /\ distributed + swept > 0 => status = "inactive"
  BY DEF ChainConsistent, Program!TypeOK, Program!Solvency, Program!PayoutDeactivates
<1>3. CASE UNCHANGED chain
  BY <1>3 DEF chain, ChainConsistent, Program!TypeOK, Program!Solvency, Program!PayoutDeactivates
<1>4. CASE Program!CloseSurvey(Creator)
  <2>1. status' = "inactive"
        /\ UNCHANGED <<currency, maxResponses, responseCount, participants, vault,
                       tokenVaultOpen, deposited, distributed, paid, fees, swept>>
    BY <1>4 DEF Program!CloseSurvey, Program!moneyVars
  <2>2. QED
    BY <1>1, <1>2, <2>1 DEF ChainConsistent, Program!TypeOK, Program!Currency,
         Program!Solvency, Program!PayoutDeactivates
<1>5. ASSUME NEW t \in Tabs, Pays(t) PROVE ChainConsistent'
  <2>1. /\ vault' \in 0..vault /\ distributed' = distributed + (vault - vault')
        /\ distributed' \in Nat /\ status' = "inactive"
        /\ paid' \in [Program!Payees -> Nat]
        /\ UNCHANGED <<currency, maxResponses, responseCount, participants,
                       tokenVaultOpen, deposited, fees, swept>>
    BY <1>5, PaysEffect
  <2>2. PICK v \in Nat : v = vault' /\ v <= vault
    BY <1>2, <2>1
  <2>3. vault' \in Int /\ fees' \in Nat /\ deposited' \in Nat /\ swept' \in Nat
    BY <1>2, <2>1, <2>2
  <2>4. /\ deposited' = deposited /\ fees' = fees /\ swept' = swept
        /\ distributed' = distributed + (vault - v)
    BY <2>1, <2>2
  <2>5. /\ vault \in Nat /\ deposited = vault + distributed + fees + swept
        /\ distributed \in Nat /\ fees = 0 /\ swept \in Nat
    BY <1>2
  <2>6. vault + distributed + fees + swept = v + (distributed + (vault - v)) + fees + swept
    BY <2>5
  <2>7. deposited' = v + distributed' + fees' + swept'
    BY <2>4, <2>5, <2>6
  <2>8. vault' >= 0 /\ deposited' = vault' + distributed' + fees' + swept'
    BY <2>2, <2>7
  <2>9. Program!TypeOK'
    BY <1>1, <2>1, <2>3 DEF Program!TypeOK, Program!Currency
  <2>10. Program!Solvency'
    BY <2>8 DEF Program!Solvency
  <2>11. Program!PayoutDeactivates' /\ status' # "absent" /\ fees' = 0 /\ deposited' >= Pool
    BY <1>2, <2>1 DEF Program!PayoutDeactivates
  <2>12. QED
    BY <2>9, <2>10, <2>11 DEF ChainConsistent
<1>6. CASE Sweeps
  <2>1. /\ status = "inactive" /\ vault' = 0 /\ swept' = swept + vault
        /\ tokenVaultOpen' \in BOOLEAN
        /\ UNCHANGED <<status, currency, maxResponses, responseCount, participants,
                       deposited, distributed, paid, fees>>
    BY <1>1, <1>6 DEF Sweeps, Program!Sweep, Program!surveyVars
  <2>2. Program!TypeOK'
    BY <1>1, <1>2, <2>1 DEF Program!TypeOK, Program!Currency
  <2>3. Program!Solvency'
    BY <1>2, <2>1 DEF Program!Solvency
  <2>4. Program!PayoutDeactivates' /\ status' # "absent" /\ fees' = 0 /\ deposited' >= Pool
    BY <1>2, <2>1 DEF Program!PayoutDeactivates
  <2>5. QED
    BY <2>2, <2>3, <2>4 DEF ChainConsistent
<1>7. QED
  BY <1>3, <1>4, <1>5, <1>6, ChainSteps

-----------------------------------------------------------------------------
(***************************************************************************)
(* What a step does to its session                                         *)
(***************************************************************************)

(* A session with these fields.                                            *)
IsSession(s, at, sees, eligible, plan, batch, recovered) ==
    /\ s \in Session
    /\ s.at = at /\ s.sees = sees /\ s.eligible = eligible
    /\ s.plan = plan /\ s.batch = batch /\ s.recovered = recovered

(* The session of t after a step; the other sessions are left alone.       *)
Now(t, at, sees, eligible, plan, batch, recovered) ==
    /\ session' \in [Tabs -> Session]
    /\ IsSession(session'[t], at, sees, eligible, plan, batch, recovered)
    /\ \A u \in Tabs \ {t} : session'[u] = session[u]

(* The fields of a session.                                                *)
LEMMA SessionFields ==
  ASSUME NEW s \in Session
  PROVE  /\ s.at \in Labels /\ s.sees \in BOOLEAN /\ s.eligible \in Seq(Wallets)
         /\ s.plan \in Seq(Program!Entry) /\ s.batch \in Nat \ {0} /\ s.recovered \in BOOLEAN
  BY DEF Session

(* Replacing the session of t.                                             *)
LEMMA Replaced ==
  ASSUME session \in [Tabs -> Session], NEW t \in Tabs, NEW s \in Session,
         session' = [session EXCEPT ![t] = s]
  PROVE  /\ session' \in [Tabs -> Session] /\ session'[t] = s
         /\ \A u \in Tabs \ {t} : session'[u] = session[u]
  OBVIOUS

(* The record that GotoNow is about.                                               *)
LEMMA GotoRecord ==
  ASSUME NEW s \in Session, NEW label \in Labels
  PROVE  IsSession([s EXCEPT !.at = label],
                   label, s.sees, s.eligible, s.plan, s.batch, s.recovered)
  BY DEF IsSession, Session, Labels

(* Only the label changes.                                                 *)
LEMMA GotoNow ==
  ASSUME session \in [Tabs -> Session], NEW t \in Tabs, NEW label \in Labels,
         Goto(t, label)
  PROVE  Now(t, label, session[t].sees, session[t].eligible, session[t].plan, session[t].batch, session[t].recovered)
<1>1. PICK s \in Session : s = session[t]
  OBVIOUS
<1>2. session' = [session EXCEPT ![t] = [s EXCEPT !.at = label]]
  BY <1>1, Zenon DEF Goto
<1>3. PICK q : q = [s EXCEPT !.at = label]
  OBVIOUS
<1>4. IsSession(q, label, s.sees, s.eligible, s.plan, s.batch, s.recovered)
  BY <1>3, GotoRecord
<1>5. q \in Session
  BY <1>4 DEF IsSession
<1>6. /\ session' \in [Tabs -> Session] /\ session'[t] = q
      /\ \A u \in Tabs \ {t} : session'[u] = session[u]
  BY <1>2, <1>3, <1>5, Replaced
<1>7. QED
  BY <1>1, <1>4, <1>6 DEF Now

(* The record that FinishNow is about.                                             *)
LEMMA FinishRecord ==
  ASSUME NEW s \in Session
  PROVE  IsSession([s EXCEPT !.at = "idle", !.sees = TRUE],
                   "idle", TRUE, s.eligible, s.plan, s.batch, s.recovered)
  BY DEF IsSession, Session, Labels

(* The distribution counts as a success.                                   *)
LEMMA FinishNow ==
  ASSUME session \in [Tabs -> Session], NEW t \in Tabs,
         Finish(t)
  PROVE  Now(t, "idle", TRUE, session[t].eligible, session[t].plan, session[t].batch, session[t].recovered)
<1>1. PICK s \in Session : s = session[t]
  OBVIOUS
<1>2. session' = [session EXCEPT ![t] = [s EXCEPT !.at = "idle", !.sees = TRUE]]
  BY <1>1, Zenon DEF Finish
<1>3. PICK q : q = [s EXCEPT !.at = "idle", !.sees = TRUE]
  OBVIOUS
<1>4. IsSession(q, "idle", TRUE, s.eligible, s.plan, s.batch, s.recovered)
  BY <1>3, FinishRecord
<1>5. q \in Session
  BY <1>4 DEF IsSession
<1>6. /\ session' \in [Tabs -> Session] /\ session'[t] = q
      /\ \A u \in Tabs \ {t} : session'[u] = session[u]
  BY <1>2, <1>3, <1>5, Replaced
<1>7. QED
  BY <1>1, <1>4, <1>6 DEF Now

(* The record that NextBatchNow is about.                                          *)
LEMMA NextBatchRecord ==
  ASSUME NEW s \in Session, NEW nb \in Labels, NEW k \in Nat \ {0}
  PROVE  IsSession([s EXCEPT !.at = nb, !.batch = k],
                   nb, s.sees, s.eligible, s.plan, k, s.recovered)
  BY DEF IsSession, Session, Labels

(* The next batch, or the end of the loop: nb is its label, k its number.   *)
LEMMA NextBatchNow ==
  ASSUME session \in [Tabs -> Session], NEW t \in Tabs, NEW nb \in Labels, NEW k \in Nat \ {0},
         nb = (IF LastBatch(t) THEN "buildSweep" ELSE "send"),
         k = (IF LastBatch(t) THEN session[t].batch ELSE session[t].batch + 1), NextBatch(t)
  PROVE  Now(t, nb, session[t].sees, session[t].eligible, session[t].plan, k, session[t].recovered)
<1>1. PICK s \in Session : s = session[t]
  OBVIOUS
<1>2. session' = [session EXCEPT ![t] = [s EXCEPT !.at = nb, !.batch = k]]
  BY <1>1, Zenon DEF NextBatch
<1>3. PICK q : q = [s EXCEPT !.at = nb, !.batch = k]
  OBVIOUS
<1>4. IsSession(q, nb, s.sees, s.eligible, s.plan, k, s.recovered)
  BY <1>3, NextBatchRecord
<1>5. q \in Session
  BY <1>4 DEF IsSession
<1>6. /\ session' \in [Tabs -> Session] /\ session'[t] = q
      /\ \A u \in Tabs \ {t} : session'[u] = session[u]
  BY <1>2, <1>3, <1>5, Replaced
<1>7. QED
  BY <1>1, <1>4, <1>6 DEF Now

(* The record that ReadResponsesNow is about.                                      *)
LEMMA ReadResponsesRecord ==
  ASSUME NEW s \in Session, NEW e \in Seq(Wallets)
  PROVE  IsSession([s EXCEPT !.at = "balance", !.eligible = e],
                   "balance", s.sees, e, s.plan, s.batch, s.recovered)
  BY DEF IsSession, Session, Labels

(* The wallets that will be paid are remembered.                           *)
LEMMA ReadResponsesNow ==
  ASSUME session \in [Tabs -> Session], NEW t \in Tabs, NEW e \in Seq(Wallets),
         session' = [session EXCEPT ![t].at = "balance", ![t].eligible = e]
  PROVE  Now(t, "balance", session[t].sees, e, session[t].plan, session[t].batch, session[t].recovered)
<1>1. PICK s \in Session : s = session[t]
  OBVIOUS
<1>2. session' = [session EXCEPT ![t] = [s EXCEPT !.at = "balance", !.eligible = e]]
  BY <1>1, Zenon
<1>3. PICK q : q = [s EXCEPT !.at = "balance", !.eligible = e]
  OBVIOUS
<1>4. IsSession(q, "balance", s.sees, e, s.plan, s.batch, s.recovered)
  BY <1>3, ReadResponsesRecord
<1>5. q \in Session
  BY <1>4 DEF IsSession
<1>6. /\ session' \in [Tabs -> Session] /\ session'[t] = q
      /\ \A u \in Tabs \ {t} : session'[u] = session[u]
  BY <1>2, <1>3, <1>5, Replaced
<1>7. QED
  BY <1>1, <1>4, <1>6 DEF Now

(* The record that ReadBalanceNow is about.                                        *)
LEMMA ReadBalanceRecord ==
  ASSUME NEW s \in Session, NEW plan \in Seq(Program!Entry),
         NEW nb \in Labels, NEW r \in BOOLEAN
  PROVE  IsSession([s EXCEPT !.at = nb, !.eligible = <<>>, !.plan = plan,
                              !.batch = 1, !.recovered = r],
                   nb, s.sees, <<>>, plan, 1, r)
<1>1. 1 \in Nat \ {0} /\ <<>> \in Seq(Wallets)
  OBVIOUS
<1>2. PICK e \in Seq(Wallets), k \in Nat \ {0} : e = <<>> /\ k = 1
  BY <1>1, Zenon
<1>3. PICK a \in Session : a = [s EXCEPT !.at = nb, !.eligible = e]
  BY DEF Session
<1>4. PICK b \in Session : b = [a EXCEPT !.plan = plan, !.batch = k]
  BY DEF Session
<1>5. PICK q \in Session : q = [b EXCEPT !.recovered = r]
  BY DEF Session
<1>6. a.at = nb /\ a.sees = s.sees /\ a.eligible = e
  BY <1>3 DEF Session
<1>7. b.at = a.at /\ b.sees = a.sees /\ b.eligible = a.eligible /\ b.plan = plan /\ b.batch = k
  BY <1>4 DEF Session
<1>8. /\ q.at = b.at /\ q.sees = b.sees /\ q.eligible = b.eligible
      /\ q.plan = b.plan /\ q.batch = b.batch /\ q.recovered = r
  BY <1>5 DEF Session
<1>9. IsSession(q, nb, s.sees, e, plan, k, r)
  BY <1>6, <1>7, <1>8 DEF IsSession
<1>10. q = [s EXCEPT !.at = nb, !.eligible = e, !.plan = plan, !.batch = k, !.recovered = r]
  BY <1>3, <1>4, <1>5
<1>11. QED
  BY <1>2, <1>9, <1>10, Zenon

(* A new plan, from its first batch.                                       *)
LEMMA ReadBalanceNow ==
  ASSUME session \in [Tabs -> Session], NEW t \in Tabs, NEW plan \in Seq(Program!Entry),
         NEW nb \in Labels, NEW r \in BOOLEAN,
         session' = [session EXCEPT ![t].at = nb, ![t].eligible = <<>>, ![t].plan = plan,
                                    ![t].batch = 1, ![t].recovered = r]
  PROVE  Now(t, nb, session[t].sees, <<>>, plan, 1, r)
<1>1. PICK s \in Session : s = session[t]
  OBVIOUS
<1>2. session' = [session EXCEPT ![t] = [s EXCEPT !.at = nb, !.eligible = <<>>, !.plan = plan,
                              !.batch = 1, !.recovered = r]]
  BY <1>1, Zenon
<1>3. PICK q : q = [s EXCEPT !.at = nb, !.eligible = <<>>, !.plan = plan,
                              !.batch = 1, !.recovered = r]
  OBVIOUS
<1>4. IsSession(q, nb, s.sees, <<>>, plan, 1, r)
  BY <1>3, ReadBalanceRecord
<1>5. q \in Session
  BY <1>4 DEF IsSession
<1>6. /\ session' \in [Tabs -> Session] /\ session'[t] = q
      /\ \A u \in Tabs \ {t} : session'[u] = session[u]
  BY <1>2, <1>3, <1>5, Replaced
<1>7. QED
  BY <1>1, <1>4, <1>6 DEF Now

(* The record that AbandonNow is about.                                            *)
LEMMA AbandonRecord ==
  ASSUME NEW s \in Session
  PROVE  IsSession([s EXCEPT !.at = "idle", !.plan = <<>>, !.batch = 1, !.eligible = <<>>],
                   "idle", s.sees, <<>>, <<>>, 1, s.recovered)
<1>1. 1 \in Nat \ {0} /\ <<>> \in Seq(Wallets) /\ <<>> \in Seq(Program!Entry)
  OBVIOUS
<1>2. PICK e \in Seq(Wallets), p \in Seq(Program!Entry), k \in Nat \ {0} :
         e = <<>> /\ p = <<>> /\ k = 1
  BY <1>1, Zenon
<1>3. PICK a \in Session : a = [s EXCEPT !.at = "idle", !.plan = p]
  BY DEF Session, Labels
<1>4. PICK q \in Session : q = [a EXCEPT !.batch = k, !.eligible = e]
  BY DEF Session
<1>5. /\ a.at = "idle" /\ a.sees = s.sees /\ a.plan = p /\ a.recovered = s.recovered
  BY <1>3 DEF Session
<1>6. /\ q.at = a.at /\ q.sees = a.sees /\ q.eligible = e
      /\ q.plan = a.plan /\ q.batch = k /\ q.recovered = a.recovered
  BY <1>4 DEF Session
<1>7. IsSession(q, "idle", s.sees, e, p, k, s.recovered)
  BY <1>5, <1>6 DEF IsSession
<1>8. q = [s EXCEPT !.at = "idle", !.plan = p, !.batch = k, !.eligible = e]
  BY <1>3, <1>4
<1>9. QED
  BY <1>2, <1>7, <1>8, Zenon

(* The chain of awaits is gone.                                            *)
LEMMA AbandonNow ==
  ASSUME session \in [Tabs -> Session], NEW t \in Tabs,
         Abandon(t)
  PROVE  Now(t, "idle", session[t].sees, <<>>, <<>>, 1, session[t].recovered)
<1>1. PICK s \in Session : s = session[t]
  OBVIOUS
<1>2. session' = [session EXCEPT ![t] = [s EXCEPT !.at = "idle", !.plan = <<>>,
                              !.batch = 1, !.eligible = <<>>]]
  BY <1>1, Zenon DEF Abandon
<1>3. PICK q : q = [s EXCEPT !.at = "idle", !.plan = <<>>,
                              !.batch = 1, !.eligible = <<>>]
  OBVIOUS
<1>4. IsSession(q, "idle", s.sees, <<>>, <<>>, 1, s.recovered)
  BY <1>3, AbandonRecord
<1>5. q \in Session
  BY <1>4 DEF IsSession
<1>6. /\ session' \in [Tabs -> Session] /\ session'[t] = q
      /\ \A u \in Tabs \ {t} : session'[u] = session[u]
  BY <1>2, <1>3, <1>5, Replaced
<1>7. QED
  BY <1>1, <1>4, <1>6 DEF Now

(* The record that ReloadNow is about.                                             *)
LEMMA ReloadRecord ==
  ASSUME NEW s \in Session, NEW d \in BOOLEAN
  PROVE  IsSession([s EXCEPT !.sees = d],
                   s.at, d, s.eligible, s.plan, s.batch, s.recovered)
  BY DEF IsSession, Session, Labels

(* The page is loaded again.                                               *)
LEMMA ReloadNow ==
  ASSUME session \in [Tabs -> Session], NEW t \in Tabs, NEW d \in BOOLEAN,
         d = rewardDistributed, Reload(t)
  PROVE  Now(t, session[t].at, d, session[t].eligible, session[t].plan, session[t].batch, session[t].recovered)
<1>1. PICK s \in Session : s = session[t]
  OBVIOUS
<1>2. session' = [session EXCEPT ![t] = [s EXCEPT !.sees = d]]
  BY <1>1, Zenon DEF Reload
<1>3. PICK q : q = [s EXCEPT !.sees = d]
  OBVIOUS
<1>4. IsSession(q, s.at, d, s.eligible, s.plan, s.batch, s.recovered)
  BY <1>3, ReloadRecord
<1>5. q \in Session
  BY <1>4 DEF IsSession
<1>6. /\ session' \in [Tabs -> Session] /\ session'[t] = q
      /\ \A u \in Tabs \ {t} : session'[u] = session[u]
  BY <1>2, <1>3, <1>5, Replaced
<1>7. QED
  BY <1>1, <1>4, <1>6 DEF Now

-----------------------------------------------------------------------------
(***************************************************************************)
(* The invariant of every survey: Consistent                               *)
(***************************************************************************)

(* A sequence without duplicates is as long as the set of its elements.    *)
LEMMA DistinctLength ==
  ASSUME NEW S, IsFiniteSet(S), NEW s \in Seq(S), Distinct(s)
  PROVE  Cardinality(Range(s)) = Len(s) /\ Len(s) <= Cardinality(S) /\ Range(s) \subseteq S
<1>1. Len(s) \in Nat /\ s \in [1..Len(s) -> S] /\ DOMAIN s = 1..Len(s)
  OBVIOUS
<1>2. \A i, j \in 1..Len(s) : s[i] = s[j] => i = j
  BY DEF Distinct
<1>3. Range(s) \subseteq S /\ s \in [1..Len(s) -> Range(s)]
  BY <1>1 DEF Range
<1>4. \A x \in Range(s) : \E i \in 1..Len(s) : s[i] = x
  BY <1>1 DEF Range
<1>5. s \in Bijection(1..Len(s), Range(s))
  <2>1. IsInjective(s)
    BY <1>1, <1>2 DEF IsInjective
  <2>2. s \in Injection(1..Len(s), Range(s))
    BY <1>3, <2>1 DEF Injection
  <2>3. s \in Surjection(1..Len(s), Range(s))
    BY <1>3, <1>4 DEF Surjection
  <2>4. QED
    BY <2>2, <2>3 DEF Bijection
<1>6. Cardinality(Range(s)) = Len(s)
  <2>1. ExistsBijection(1..Len(s), Range(s))
    BY <1>5 DEF ExistsBijection
  <2>2. QED
    BY <1>1, <2>1, FS_CountingElements
<1>7. Cardinality(Range(s)) <= Cardinality(S)
  BY <1>3, FS_Subset
<1>8. QED
  BY <1>3, <1>6, <1>7

(* The entry that is found for a recipient.                                *)
LEMMA ChosenEntry ==
  ASSUME NEW entries \in Seq(Program!Entry), NEW w \in Recipients(entries),
         NEW e, e = CHOOSE x \in Range(entries) : x.to = w
  PROVE  /\ e.amount \in Nat
         /\ Distinct([i \in 1..Len(entries) |-> entries[i].to]) =>
              \A i \in 1..Len(entries) : entries[i].to = w => e = entries[i]
<1>1. DOMAIN entries = 1..Len(entries) /\ Len(entries) \in Nat
  OBVIOUS
<1>2. PICK k \in 1..Len(entries) : entries[k].to = w
  BY DEF Recipients
<1>3. entries[k] \in Range(entries)
  BY <1>1 DEF Range
<1>4. e \in Range(entries) /\ e.to = w
  BY <1>2, <1>3
<1>5. PICK j \in 1..Len(entries) : e = entries[j]
  BY <1>1, <1>4 DEF Range
<1>6. e.amount \in Nat
  <2>1. entries[j] \in Program!Entry
    BY ElementOfSeq
  <2>2. QED
    BY <1>5, <2>1, EntryFields
<1>7. ASSUME Distinct([i \in 1..Len(entries) |-> entries[i].to]),
             NEW i \in 1..Len(entries), entries[i].to = w
      PROVE  e = entries[i]
  <2>. DEFINE tos == [x \in 1..Len(entries) |-> entries[x].to]
  <2>1. tos[i] = tos[j]
    BY <1>4, <1>5, <1>7
  <2>2. Len(tos) = Len(entries)
    <3>1. tos \in [1..Len(entries) -> {entries[x].to : x \in 1..Len(entries)}]
      OBVIOUS
    <3>. HIDE DEF tos
    <3>2. QED
      BY <1>1, <3>1, FunctionIsSeq
  <2>3. i = j
    <3>. HIDE DEF tos
    <3>. QED
      BY <1>7, <2>1, <2>2 DEF Distinct, tos
  <2>4. QED
    BY <1>5, <2>3
<1>8. QED
  BY <1>6, <1>7

(* What marking a batch, or a plan, does to the responses.                 *)
LEMMA MarkEffect ==
  ASSUME marked \subseteq Answered, credited \in [Wallets -> Nat],
         NEW entries \in Seq(Program!Entry), Mark(entries)
  PROVE  /\ marked' = marked \cup (Recipients(entries) \cap Answered)
         /\ marked' \subseteq Answered
         /\ credited' \in [Wallets -> Nat]
         /\ \A w \in Wallets \ (Recipients(entries) \cap Answered) : credited'[w] = credited[w]
         /\ Distinct([i \in 1..Len(entries) |-> entries[i].to]) =>
              \A i \in 1..Len(entries) :
                 entries[i].to \in Answered \cap Wallets =>
                    credited'[entries[i].to] = entries[i].amount
<1>. DEFINE hit == Recipients(entries) \cap Answered
            found(w) == CHOOSE e \in Range(entries) : e.to = w
<1>1. /\ marked' = marked \cup hit
      /\ credited' = [w \in Wallets |-> IF w \in hit THEN found(w).amount ELSE credited[w]]
  BY DEF Mark
<1>2. \A w \in hit : found(w).amount \in Nat
  <2>1. SUFFICES ASSUME NEW w \in hit PROVE found(w).amount \in Nat
    OBVIOUS
  <2>2. PICK e : e = found(w)
    OBVIOUS
  <2>3. e.amount \in Nat
    BY <2>2, ChosenEntry
  <2>4. QED
    BY <2>2, <2>3
<1>3. ASSUME Distinct([i \in 1..Len(entries) |-> entries[i].to]),
             NEW i \in 1..Len(entries), entries[i].to \in Answered \cap Wallets
      PROVE  credited'[entries[i].to] = entries[i].amount
  <2>1. PICK w \in Wallets : w = entries[i].to
    BY <1>3
  <2>2. w \in hit /\ w \in Recipients(entries)
    BY <1>3, <2>1 DEF Recipients
  <2>3. PICK e : e = found(w)
    OBVIOUS
  <2>4. e = entries[i]
    BY <1>3, <2>1, <2>2, <2>3, ChosenEntry
  <2>. HIDE DEF hit, found
  <2>5. credited'[w] = found(w).amount
    BY <1>1, <2>2
  <2>6. QED
    BY <2>1, <2>3, <2>4, <2>5
<1>. HIDE DEF found
<1>4. marked' \subseteq Answered
  BY <1>1
<1>. HIDE DEF hit
<1>5. credited' \in [Wallets -> Nat]
  BY <1>1, <1>2
<1>6. \A w \in Wallets \ hit : credited'[w] = credited[w]
  BY <1>1
<1>7. QED
  BY <1>1, <1>3, <1>4, <1>5, <1>6 DEF hit

(* What marking the losers does to the responses.                          *)
LEMMA MarkLosersEffect ==
  ASSUME marked \subseteq Answered, credited \in [Wallets -> Nat], MarkLosers
  PROVE  /\ marked' = Answered
         /\ credited' \in [Wallets -> Nat]
         /\ \A w \in Wallets \cap marked : credited'[w] = credited[w]
  BY DEF MarkLosers, Unmarked

(* Answers come one at a time.                                             *)
LEMMA AnswerSteps ==
  ASSUME [Next]_vars
  PROVE  \/ UNCHANGED answers
         \/ \E w \in Wallets :
               \/ ReserveSlot(w) \/ CreateResponse(w)
               \/ \E verdict \in {"clean", "flagged", "rejected"} : ModerateResponse(w, verdict)
<1>1. CASE UNCHANGED vars
  BY <1>1 DEF vars, db
<1>2. ASSUME NEW t \in Tabs,
             \/ SendClose(t) \/ PressDistribute(t) \/ Refuse(t) \/ Abandon(t) \/ Reload(t)
             \/ ConfirmClose(t) \/ ReadResponses(t) \/ ReadBalance(t)
             \/ RecoverMark(t) \/ RecoverLosers(t) \/ RecoverFlag(t)
             \/ SendBatch(t) \/ LandBatch(t) \/ LoadForm(t) \/ ValidateWallets(t)
             \/ MarkBatch(t) \/ CountRemaining(t) \/ MarkRemaining(t) \/ Recount(t)
             \/ FlagDistributed(t) \/ BuildSweep(t) \/ SweepEscrow(t) \/ ConfirmSweep(t)
      PROVE  UNCHANGED answers
  BY <1>2 DEF SendClose, PressDistribute, Refuse, Abandon, Reload, ConfirmClose, ReadResponses,
       ReadBalance, RecoverMark, RecoverLosers, RecoverFlag, SendBatch, LandBatch, LoadForm,
       ValidateWallets, MarkBatch, CountRemaining, MarkRemaining, Recount, FlagDistributed,
       BuildSweep, SweepEscrow, ConfirmSweep, db
<1>3. QED
  BY <1>1, <1>2 DEF Next, TabStep, CodeStep, SignedStep

(* Whatever happens to the answers, every wallet answers at most once.     *)
LEMMA AnswersEffect ==
  ASSUME DbConsistent, [Next]_vars
  PROVE  /\ responses' \in Seq(Wallets) /\ Distinct(responses)'
         /\ reserved' \subseteq Wallets \ Answered'
         /\ Answered \subseteq Answered'
         /\ moderation' \in [Wallets -> {"clean", "flagged", "rejected"}]
<1>1. /\ responses \in Seq(Wallets) /\ Distinct(responses)
      /\ reserved \subseteq Wallets \ Answered
      /\ moderation \in [Wallets -> {"clean", "flagged", "rejected"}]
  BY DEF DbConsistent
<1>2. CASE UNCHANGED answers
  BY <1>1, <1>2 DEF answers, Answered, Distinct
<1>3. ASSUME NEW w \in Wallets, ReserveSlot(w)
      PROVE  /\ responses' \in Seq(Wallets) /\ Distinct(responses)'
             /\ reserved' \subseteq Wallets \ Answered' /\ Answered \subseteq Answered'
             /\ moderation' \in [Wallets -> {"clean", "flagged", "rejected"}]
  <2>1. /\ responses' = responses /\ moderation' = moderation /\ w \notin Answered
        /\ reserved' = reserved \cup {w}
    BY <1>3 DEF ReserveSlot
  <2>2. Answered' = Answered
    BY <2>1 DEF Answered
  <2>3. QED
    BY <1>1, <2>1, <2>2 DEF Distinct
<1>4. ASSUME NEW w \in Wallets, CreateResponse(w)
      PROVE  /\ responses' \in Seq(Wallets) /\ Distinct(responses)'
             /\ reserved' \subseteq Wallets \ Answered' /\ Answered \subseteq Answered'
             /\ moderation' \in [Wallets -> {"clean", "flagged", "rejected"}]
  <2>1. /\ w \in reserved /\ reserved' = reserved \ {w}
        /\ responses' = Append(responses, w) /\ moderation' = moderation
    BY <1>4 DEF CreateResponse
  <2>2. PICK n \in Nat : n = Len(responses)
    BY <1>1
  <2>3. /\ responses' \in Seq(Wallets) /\ Len(responses') = n + 1
        /\ \A i \in 1..n : responses'[i] = responses[i]
        /\ responses'[n+1] = w
    BY <1>1, <2>1, <2>2
  <2>4. /\ DOMAIN responses = 1..n /\ DOMAIN responses' = 1..n+1
    BY <1>1, <2>2, <2>3
  <2>5. \A i \in 1..n : responses[i] \in Answered
    BY <2>4 DEF Answered, Range
  <2>6. Answered' = Answered \cup {w}
    <3>1. Answered' = {responses'[i] : i \in 1..n+1}
      BY <2>4 DEF Answered, Range
    <3>2. Answered = {responses[i] : i \in 1..n}
      BY <2>4 DEF Answered, Range
    <3>3. Answered \cup {w} \subseteq Answered'
      BY <2>3, <3>1, <3>2
    <3>4. ASSUME NEW i \in 1..n+1 PROVE responses'[i] \in Answered \cup {w}
      <4>1. i \in 1..n \/ i = n + 1
        BY <2>2
      <4>2. QED
        BY <2>3, <2>5, <4>1
    <3>5. QED
      BY <3>1, <3>3, <3>4
  <2>7. w \notin Answered
    BY <1>1, <2>1
  <2>8. Distinct(responses)'
    <3>1. SUFFICES ASSUME NEW i \in 1..n+1, NEW j \in 1..n+1, responses'[i] = responses'[j]
                   PROVE  i = j
      BY <2>3 DEF Distinct
    <3>2. (i \in 1..n \/ i = n + 1) /\ (j \in 1..n \/ j = n + 1)
      BY <2>2
    <3>3. CASE i \in 1..n /\ j \in 1..n
      BY <1>1, <2>2, <2>3, <3>1, <3>3 DEF Distinct
    <3>4. QED
      BY <2>3, <2>5, <2>7, <3>1, <3>2, <3>3
  <2>9. QED
    BY <1>1, <2>1, <2>3, <2>6, <2>8
<1>5. ASSUME NEW w \in Wallets, NEW verdict \in {"clean", "flagged", "rejected"},
             ModerateResponse(w, verdict)
      PROVE  /\ responses' \in Seq(Wallets) /\ Distinct(responses)'
             /\ reserved' \subseteq Wallets \ Answered' /\ Answered \subseteq Answered'
             /\ moderation' \in [Wallets -> {"clean", "flagged", "rejected"}]
  <2>1. /\ responses' = responses /\ reserved' = reserved
        /\ moderation' = [moderation EXCEPT ![w] = verdict]
    BY <1>5 DEF ModerateResponse
  <2>2. Answered' = Answered
    BY <2>1 DEF Answered
  <2>3. QED
    BY <1>1, <2>1, <2>2 DEF Distinct
<1>6. QED
  BY <1>2, <1>3, <1>4, <1>5, AnswerSteps

(* Responses are recorded as paid by a recovered plan, by a batch, or as   *)
(* those that get nothing.                                                 *)
LEMMA LedgerSteps ==
  ASSUME [Next]_vars
  PROVE  \/ UNCHANGED ledger
         \/ \E t \in Tabs :
               \/ session[t].at = "recoverMark" /\ Mark(session[t].plan)
               \/ session[t].at = "mark" /\ Mark(CurrentBatch(t))
               \/ session[t].at \in {"recoverLosers", "losers"} /\ MarkLosers
<1>1. CASE UNCHANGED vars
  BY <1>1 DEF vars, db
<1>2. ASSUME NEW t \in Tabs,
             \/ SendClose(t) \/ PressDistribute(t) \/ Refuse(t) \/ Abandon(t) \/ Reload(t)
             \/ ConfirmClose(t) \/ ReadResponses(t) \/ ReadBalance(t) \/ RecoverFlag(t)
             \/ SendBatch(t) \/ LandBatch(t) \/ LoadForm(t) \/ ValidateWallets(t)
             \/ CountRemaining(t) \/ Recount(t)
             \/ FlagDistributed(t) \/ BuildSweep(t) \/ SweepEscrow(t) \/ ConfirmSweep(t)
      PROVE  UNCHANGED ledger
  BY <1>2 DEF SendClose, PressDistribute, Refuse, Abandon, Reload, ConfirmClose, ReadResponses,
       ReadBalance, RecoverFlag, SendBatch, LandBatch, LoadForm, ValidateWallets,
       CountRemaining, Recount, FlagDistributed, BuildSweep, SweepEscrow, ConfirmSweep, db
<1>3. ASSUME NEW w \in Wallets,
             \/ ReserveSlot(w) \/ CreateResponse(w)
             \/ \E verdict \in {"clean", "flagged", "rejected"} : ModerateResponse(w, verdict)
      PROVE  UNCHANGED ledger
  BY <1>3 DEF ReserveSlot, CreateResponse, ModerateResponse
<1>4. ASSUME NEW t \in Tabs,
             RecoverMark(t) \/ RecoverLosers(t) \/ MarkBatch(t) \/ MarkRemaining(t)
      PROVE  \/ session[t].at = "recoverMark" /\ Mark(session[t].plan)
             \/ session[t].at = "mark" /\ Mark(CurrentBatch(t))
             \/ session[t].at \in {"recoverLosers", "losers"} /\ MarkLosers
  BY <1>4 DEF RecoverMark, RecoverLosers, MarkBatch, MarkRemaining
<1>5. QED
  BY <1>1, <1>2, <1>3, <1>4 DEF Next, TabStep, CodeStep, SignedStep

(* The form is closed, flagged as distributed or as swept.                 *)
LEMMA FormSteps ==
  ASSUME [Next]_vars
  PROVE  /\ form' = form \/ form' = "closed"
         /\ \/ rewardDistributed' = rewardDistributed
            \/ /\ rewardDistributed' = TRUE
               /\ \E t \in Tabs : RecoverFlag(t) \/ FlagDistributed(t)
         /\ \/ escrowClosed' = escrowClosed
            \/ escrowClosed' = TRUE /\ \E t \in Tabs : ConfirmSweep(t)
         /\ \/ UNCHANGED bounded
            \/ \E t \in Tabs : Abandon(t)
            \/ \E w \in Wallets, v \in {"clean", "flagged", "rejected"} : ModerateResponse(w, v)
<1>1. CASE UNCHANGED vars
  BY <1>1 DEF vars, db, formVars
<1>2. ASSUME NEW t \in Tabs,
             \/ SendClose(t) \/ PressDistribute(t) \/ Refuse(t) \/ Reload(t)
             \/ ReadResponses(t) \/ ReadBalance(t)
             \/ SendBatch(t) \/ LandBatch(t) \/ LoadForm(t) \/ ValidateWallets(t)
             \/ RecoverMark(t) \/ RecoverLosers(t) \/ MarkBatch(t) \/ MarkRemaining(t)
             \/ CountRemaining(t) \/ Recount(t) \/ BuildSweep(t) \/ SweepEscrow(t)
      PROVE  UNCHANGED formVars /\ UNCHANGED bounded
  BY <1>2 DEF SendClose, PressDistribute, Refuse, Reload, ReadResponses,
       ReadBalance, SendBatch, LandBatch, LoadForm, ValidateWallets, RecoverMark,
       RecoverLosers, MarkBatch, MarkRemaining, CountRemaining, Recount, BuildSweep,
       SweepEscrow, db
<1>3. ASSUME NEW w \in Wallets, ReserveSlot(w) \/ CreateResponse(w)
      PROVE  UNCHANGED formVars /\ UNCHANGED bounded
  BY <1>3 DEF ReserveSlot, CreateResponse
<1>4. ASSUME NEW w \in Wallets, NEW v \in {"clean", "flagged", "rejected"},
             ModerateResponse(w, v)
      PROVE  UNCHANGED formVars
  BY <1>4 DEF ModerateResponse
<1>5. ASSUME NEW t \in Tabs, Abandon(t)
      PROVE  UNCHANGED formVars
  BY <1>5 DEF Abandon, db
<1>6. ASSUME NEW t \in Tabs, ConfirmClose(t)
      PROVE  /\ form' = form \/ form' = "closed"
             /\ UNCHANGED <<rewardDistributed, escrowClosed, bounded>>
  BY <1>6 DEF ConfirmClose
<1>7. ASSUME NEW t \in Tabs, RecoverFlag(t) \/ FlagDistributed(t)
      PROVE  rewardDistributed' = TRUE /\ UNCHANGED <<form, escrowClosed, bounded>>
  BY <1>7 DEF RecoverFlag, FlagDistributed
<1>8. ASSUME NEW t \in Tabs, ConfirmSweep(t)
      PROVE  escrowClosed' = TRUE /\ UNCHANGED <<form, rewardDistributed, bounded>>
  BY <1>8 DEF ConfirmSweep
<1>9. QED
  BY <1>1, <1>2, <1>3, <1>4, <1>5, <1>6, <1>7, <1>8 DEF Next, TabStep, CodeStep, SignedStep, formVars

(* The database stays consistent.                                          *)
LEMMA DbStep ==
  ASSUME Consistent, [Next]_vars
  PROVE  DbConsistent'
<1>1. /\ DbConsistent /\ session \in [Tabs -> Session]
      /\ form \in {"active", "closed"} /\ rewardDistributed \in BOOLEAN
      /\ escrowClosed \in BOOLEAN /\ marked \subseteq Answered
      /\ credited \in [Wallets -> Nat]
      /\ moderations \in 0..MaxModerations /\ crashes \in 0..MaxCrashes
  BY DEF Consistent, DbConsistent
<1>2. /\ responses' \in Seq(Wallets) /\ Distinct(responses)'
      /\ reserved' \subseteq Wallets \ Answered'
      /\ Answered \subseteq Answered'
      /\ moderation' \in [Wallets -> {"clean", "flagged", "rejected"}]
  BY <1>1, AnswersEffect
<1>3. marked' \subseteq Answered' /\ credited' \in [Wallets -> Nat]
  <2>1. CASE UNCHANGED ledger
    BY <1>1, <1>2, <2>1 DEF ledger
  <2>2. ASSUME NEW t \in Tabs, session[t].at = "recoverMark" /\ Mark(session[t].plan)
        PROVE  marked' \subseteq Answered /\ credited' \in [Wallets -> Nat]
    <3>1. session[t].plan \in Seq(Program!Entry)
      BY <1>1, CurrentBatchType
    <3>2. QED
      BY <1>1, <2>2, <3>1, MarkEffect
  <2>3. ASSUME NEW t \in Tabs, session[t].at = "mark" /\ Mark(CurrentBatch(t))
        PROVE  marked' \subseteq Answered /\ credited' \in [Wallets -> Nat]
    <3>1. CurrentBatch(t) \in Seq(Program!Entry)
      BY <1>1, CurrentBatchType
    <3>2. QED
      BY <1>1, <2>3, <3>1, MarkEffect
  <2>4. CASE MarkLosers
    BY <1>1, <1>2, <2>4, MarkLosersEffect
  <2>5. QED
    BY <1>2, <2>1, <2>2, <2>3, <2>4, LedgerSteps
<1>4. /\ form' \in {"active", "closed"} /\ rewardDistributed' \in BOOLEAN
      /\ escrowClosed' \in BOOLEAN
  BY <1>1, FormSteps
<1>5. moderations' \in 0..MaxModerations /\ crashes' \in 0..MaxCrashes
  <2>1. CASE UNCHANGED bounded
    BY <1>1, <2>1 DEF bounded
  <2>2. MaxModerations \in Nat /\ MaxCrashes \in Nat
    BY ConstantsAssumption
  <2>3. ASSUME NEW t \in Tabs, Abandon(t)
        PROVE  moderations' \in 0..MaxModerations /\ crashes' \in 0..MaxCrashes
    <3>1. moderations' = moderations /\ crashes < MaxCrashes /\ crashes' = crashes + 1
      BY <2>3 DEF Abandon
    <3>2. QED
      BY <1>1, <2>2, <3>1
  <2>4. ASSUME NEW w \in Wallets, NEW v \in {"clean", "flagged", "rejected"},
               ModerateResponse(w, v)
        PROVE  moderations' \in 0..MaxModerations /\ crashes' \in 0..MaxCrashes
    <3>1. /\ crashes' = crashes /\ moderations < MaxModerations
          /\ moderations' = moderations + 1
      BY <2>4 DEF ModerateResponse
    <3>2. QED
      BY <1>1, <2>2, <3>1
  <2>5. QED
    BY <2>1, <2>3, <2>4, FormSteps
<1>6. QED
  BY <1>2, <1>3, <1>4, <1>5 DEF DbConsistent

(* The find of buildDistributeTx returns unmarked answers, each once.      *)
LEMMA EligibleIs ==
  ASSUME DbConsistent
  PROVE  /\ Eligible \in Seq(Wallets) /\ Distinct(Eligible)
         /\ Range(Eligible) \subseteq Answered /\ Range(Eligible) \cap marked = {}
<1>. DEFINE S == {w \in Unmarked : moderation[w] = "clean"}
<1>1. responses \in Seq(Wallets) /\ Distinct(responses)
  BY DEF DbConsistent
<1>2. Eligible \in Seq(Wallets) /\ IsKept(Eligible, responses, S, Len(responses))
  <2>1. Eligible = Kept(responses, S)
    BY DEF Eligible
  <2>. HIDE DEF S
  <2>2. QED
    BY <1>1, <2>1, KeptIs
<1>3. Distinct(Eligible) /\ \A i \in 1..Len(Eligible) : Eligible[i] \in S
  BY <1>1, <1>2 DEF IsKept
<1>4. S \subseteq Answered /\ S \cap marked = {}
  BY DEF Unmarked
<1>5. Range(Eligible) \subseteq S
  <2>1. PICK e \in Seq(Wallets) : e = Eligible
    BY <1>2
  <2>2. DOMAIN e = 1..Len(e)
    OBVIOUS
  <2>. HIDE DEF S
  <2>3. QED
    BY <1>3, <2>1, <2>2 DEF Range
<1>6. QED
  BY <1>2, <1>3, <1>4, <1>5

(* Later answers do not disturb a session.                                 *)
LEMMA FitsMore ==
  ASSUME NEW s, NEW A, NEW B, A \subseteq B, Fits(s, A)
  PROVE  Fits(s, B)
  BY DEF Fits

(* A step that keeps the plan of t.                                        *)
LEMMA SamePlanFits ==
  ASSUME Consistent, NEW t \in Tabs, NEW at \in Labels, NEW sees,
         at = "balance" => session[t].at = "balance",
         at \in Planned => session[t].at \in Planned,
         Now(t, at, sees, session[t].eligible, session[t].plan, session[t].batch,
             session[t].recovered)
  PROVE  session' \in [Tabs -> Session] /\ \A u \in Tabs : Fits(session'[u], Answered)
<1>1. session' \in [Tabs -> Session] /\ \A u \in Tabs \ {t} : session'[u] = session[u]
  BY DEF Now
<1>2. /\ session'[t].at = at /\ session'[t].eligible = session[t].eligible
      /\ session'[t].plan = session[t].plan /\ session'[t].batch = session[t].batch
  BY DEF Now, IsSession
<1>3. \A u \in Tabs : Fits(session[u], Answered)
  BY DEF Consistent
<1>4. Fits(session'[t], Answered)
  BY <1>2, <1>3 DEF Fits
<1>5. QED
  BY <1>1, <1>3, <1>4

(* A step that makes the next batch current.                               *)
LEMMA NextBatchFits ==
  ASSUME Consistent, NEW t \in Tabs, session[t].at \in Planned, NextBatch(t)
  PROVE  session' \in [Tabs -> Session] /\ \A u \in Tabs : Fits(session'[u], Answered)
<1>. DEFINE s == session[t]
            nb == IF LastBatch(t) THEN "buildSweep" ELSE "send"
            k == IF LastBatch(t) THEN s.batch ELSE s.batch + 1
<1>1. session \in [Tabs -> Session] /\ \A u \in Tabs : Fits(session[u], Answered)
  BY DEF Consistent
<1>2. s.batch \in Nat \ {0} /\ s.plan \in Seq(Program!Entry)
  BY <1>1, CurrentBatchType
<1>3. nb \in Labels /\ k \in Nat \ {0}
  BY <1>2 DEF Labels
<1>4. Now(t, nb, s.sees, s.eligible, s.plan, k, s.recovered)
  <2>1. PICK n \in Labels, j \in Nat \ {0} : n = nb /\ j = k
    BY <1>3
  <2>2. Now(t, n, s.sees, s.eligible, s.plan, j, s.recovered)
    BY <1>1, <2>1, NextBatchNow
  <2>3. QED
    BY <2>1, <2>2
<1>. HIDE DEF nb, k
<1>5. session' \in [Tabs -> Session] /\ \A u \in Tabs \ {t} : session'[u] = session[u]
  BY <1>4 DEF Now
<1>6. /\ session'[t].at = nb /\ session'[t].eligible = s.eligible
      /\ session'[t].plan = s.plan /\ session'[t].batch = k
  BY <1>4 DEF Now, IsSession
<1>7. k = 1 \/ (k - 1) * BatchSize < Len(s.plan)
  <2>1. CASE LastBatch(t)
    BY <1>1, <2>1 DEF k, Fits
  <2>2. CASE ~LastBatch(t)
    <3>1. ~(s.batch * BatchSize >= Len(s.plan)) /\ k - 1 = s.batch
      BY <1>2, <2>2 DEF LastBatch, k
    <3>2. s.batch * BatchSize \in Nat /\ Len(s.plan) \in Nat
      BY <1>2, ConstantsAssumption
    <3>3. QED
      BY <3>1, <3>2
  <2>3. QED
    BY <2>1, <2>2
<1>8. nb # "balance" /\ s.plan # <<>>
  BY <1>1 DEF nb, Fits
<1>9. Fits(session'[t], Answered)
  <2>. PICK q : q = s
    OBVIOUS
  <2>. QED
    BY <1>1, <1>6, <1>7, <1>8 DEF Fits
<1>10. QED
  BY <1>1, <1>5, <1>9

(* The steps that only move a session to another label.                    *)
Moves(t) ==
    \E label \in Labels \ {"balance"} :
       Goto(t, label) /\ (label \in Planned => session[t].at \in Planned)

(* What each step does to the sessions.                                    *)
LEMMA SessionSteps ==
  ASSUME [Next]_vars
  PROVE  \/ UNCHANGED session
         \/ \E t \in Tabs :
               \/ Moves(t) \/ Finish(t) \/ ReadResponses(t) \/ ReadBalance(t)
               \/ session[t].at \in {"recount", "flag"} /\ NextBatch(t)
               \/ Abandon(t) \/ Reload(t)
<1>1. CASE UNCHANGED vars
  BY <1>1 DEF vars
<1>2. ASSUME NEW w \in Wallets,
             \/ ReserveSlot(w) \/ CreateResponse(w)
             \/ \E verdict \in {"clean", "flagged", "rejected"} : ModerateResponse(w, verdict)
      PROVE  UNCHANGED session
  BY <1>2 DEF ReserveSlot, CreateResponse, ModerateResponse
<1>3. ASSUME NEW t \in Tabs, SendClose(t) \/ PressDistribute(t) \/ ConfirmClose(t)
      PROVE  Moves(t)
  BY <1>3 DEF SendClose, PressDistribute, ConfirmClose, Moves, Labels, Planned, Landed, Recovering
<1>4. ASSUME NEW t \in Tabs, RecoverMark(t) \/ RecoverLosers(t) \/ RecoverFlag(t)
      PROVE  Moves(t)
  BY <1>4 DEF RecoverMark, RecoverLosers, RecoverFlag, Moves, Labels, Planned, Landed, Recovering
<1>5. ASSUME NEW t \in Tabs, SendBatch(t) \/ LandBatch(t) \/ LoadForm(t) \/ ValidateWallets(t)
      PROVE  Moves(t)
  BY <1>5 DEF SendBatch, LandBatch, LoadForm, ValidateWallets, Moves, Labels, Planned, Landed,
       Recovering
<1>6. ASSUME NEW t \in Tabs, MarkBatch(t) \/ CountRemaining(t) \/ MarkRemaining(t)
      PROVE  Moves(t)
  BY <1>6 DEF MarkBatch, CountRemaining, MarkRemaining, Moves, Labels, Planned, Landed, Recovering
<1>7. ASSUME NEW t \in Tabs, Recount(t) \/ FlagDistributed(t)
      PROVE  Moves(t) \/ (session[t].at \in {"recount", "flag"} /\ NextBatch(t))
  BY <1>7 DEF Recount, FlagDistributed, Moves, Labels, Planned, Landed, Recovering
<1>8. ASSUME NEW t \in Tabs, BuildSweep(t) \/ SweepEscrow(t) \/ ConfirmSweep(t) \/ Refuse(t)
      PROVE  Moves(t) \/ Finish(t)
  BY <1>8 DEF BuildSweep, SweepEscrow, ConfirmSweep, Refuse, Moves, Labels, Planned, Landed,
       Recovering
<1>9. QED
  BY <1>1, <1>2, <1>3, <1>4, <1>5, <1>6, <1>7, <1>8 DEF Next, TabStep, CodeStep, SignedStep

(* What a session carries keeps fitting the answers.                       *)
LEMMA SessionsFit ==
  ASSUME Consistent, [Next]_vars
  PROVE  session' \in [Tabs -> Session] /\ \A u \in Tabs : Fits(session'[u], Answered)
<1>1. session \in [Tabs -> Session] /\ DbConsistent /\ \A u \in Tabs : Fits(session[u], Answered)
  BY DEF Consistent
<1>2. \A u \in Tabs : session[u] \in Session /\ session[u].at \in Labels
  BY <1>1 DEF Session
<1>3. CASE UNCHANGED session
  BY <1>1, <1>3
<1>4. ASSUME NEW t \in Tabs, Moves(t)
      PROVE  session' \in [Tabs -> Session] /\ \A u \in Tabs : Fits(session'[u], Answered)
  <2>1. PICK label \in Labels \ {"balance"} :
           Goto(t, label) /\ (label \in Planned => session[t].at \in Planned)
    BY <1>4 DEF Moves
  <2>2. Now(t, label, session[t].sees, session[t].eligible, session[t].plan,
            session[t].batch, session[t].recovered)
    BY <1>1, <2>1, GotoNow
  <2>3. QED
    BY <2>1, <2>2, SamePlanFits
<1>5. ASSUME NEW t \in Tabs, Finish(t)
      PROVE  session' \in [Tabs -> Session] /\ \A u \in Tabs : Fits(session'[u], Answered)
  <2>1. Now(t, "idle", TRUE, session[t].eligible, session[t].plan,
            session[t].batch, session[t].recovered)
    BY <1>1, <1>5, FinishNow
  <2>2. "idle" \in Labels /\ "idle" \notin Planned
    BY DEF Labels, Planned, Landed, Recovering
  <2>3. QED
    BY <2>1, <2>2, SamePlanFits
<1>6. ASSUME NEW t \in Tabs, ReadResponses(t)
      PROVE  session' \in [Tabs -> Session] /\ \A u \in Tabs : Fits(session'[u], Answered)
  <2>1. CASE Eligible = <<>>
    <3>1. Moves(t)
      BY <1>6, <2>1 DEF ReadResponses, Moves, Labels, Planned, Landed, Recovering
    <3>2. QED
      BY <1>4, <3>1
  <2>2. CASE Eligible # <<>>
    <3>1. PICK e \in Seq(Wallets) :
             /\ e = Eligible /\ Distinct(e) /\ Range(e) \subseteq Answered /\ e # <<>>
      BY <1>1, <2>2, EligibleIs
    <3>2. session' = [session EXCEPT ![t].at = "balance", ![t].eligible = e]
      BY <1>6, <2>2, <3>1, Zenon DEF ReadResponses
    <3>3. Now(t, "balance", session[t].sees, e, session[t].plan, session[t].batch,
              session[t].recovered)
      BY <1>1, <3>2, ReadResponsesNow
    <3>4. /\ session' \in [Tabs -> Session] /\ \A u \in Tabs \ {t} : session'[u] = session[u]
          /\ session'[t].at = "balance" /\ session'[t].eligible = e
          /\ session'[t].plan = session[t].plan /\ session'[t].batch = session[t].batch
      BY <3>3 DEF Now, IsSession
    <3>5. Fits(session'[t], Answered)
      BY <1>1, <3>1, <3>4 DEF Fits, Planned, Landed, Recovering
    <3>6. QED
      BY <1>1, <3>4, <3>5
  <2>3. QED
    BY <2>1, <2>2
<1>7. ASSUME NEW t \in Tabs, ReadBalance(t)
      PROVE  session' \in [Tabs -> Session] /\ \A u \in Tabs : Fits(session'[u], Answered)
  <2>1. CASE Goto(t, "idle")
    <3>1. Moves(t)
      BY <2>1 DEF Moves, Labels, Planned, Landed, Recovering
    <3>2. QED
      BY <1>4, <3>1
  <2>2. CASE ~Goto(t, "idle")
    <3>1. PICK units, nb, r :
             /\ units = (IF EscrowBalance = 0 THEN Pool ELSE Least(EscrowBalance, Pool))
             /\ nb = (IF EscrowBalance = 0 THEN "recoverMark" ELSE "send")
             /\ r = (EscrowBalance = 0)
      OBVIOUS
    <3>2. /\ session[t].at = "balance"
          /\ \E plan \in Plans(session[t].eligible, units) :
                session' = [session EXCEPT ![t].at = nb, ![t].eligible = <<>>, ![t].plan = plan,
                                           ![t].batch = 1, ![t].recovered = r]
      BY <1>7, <2>2, <3>1, Zenon DEF ReadBalance
    <3>3. PICK plan \in Plans(session[t].eligible, units) :
             session' = [session EXCEPT ![t].at = nb, ![t].eligible = <<>>, ![t].plan = plan,
                                        ![t].batch = 1, ![t].recovered = r]
      BY <3>2
    <3>4. units \in Nat
      BY <1>1, <3>1, ConstantsAssumption
        DEF EscrowBalance, Least, Consistent, ChainConsistent, Program!TypeOK, Program!Solvency
    <3>5. PICK wallets \in Seq(Wallets) :
             /\ wallets = session[t].eligible /\ wallets # <<>> /\ Distinct(wallets)
             /\ Range(wallets) \subseteq Answered
      <4>1. session[t].eligible \in Seq(Wallets)
        BY <1>1, SessionFields
      <4>2. QED
        BY <1>1, <3>2, <4>1 DEF Fits
    <3>6. IsPlan(plan, wallets)
      BY <3>3, <3>4, <3>5, PlansAre
    <3>7. plan \in Seq(Program!Entry) /\ nb \in Labels /\ r \in BOOLEAN
      BY <3>1, <3>6 DEF IsPlan, Labels
    <3>8. Now(t, nb, session[t].sees, <<>>, plan, 1, r)
      BY <1>1, <3>3, <3>7, ReadBalanceNow
    <3>9. /\ session' \in [Tabs -> Session] /\ \A u \in Tabs \ {t} : session'[u] = session[u]
          /\ session'[t].at = nb /\ session'[t].eligible = <<>>
          /\ session'[t].plan = plan /\ session'[t].batch = 1
      BY <3>8 DEF Now, IsSession
    <3>10. Range(<<>>) \subseteq Answered /\ Distinct(<<>>) /\ nb # "balance"
      BY <3>1 DEF Range, Distinct
    <3>11. Fits(session'[t], Answered)
      BY <3>5, <3>6, <3>9, <3>10 DEF Fits, IsPlan
    <3>12. QED
      BY <1>1, <3>9, <3>11
  <2>3. QED
    BY <2>1, <2>2
<1>8. ASSUME NEW t \in Tabs, session[t].at \in {"recount", "flag"}, NextBatch(t)
      PROVE  session' \in [Tabs -> Session] /\ \A u \in Tabs : Fits(session'[u], Answered)
  <2>1. session[t].at \in Planned
    BY <1>8 DEF Planned, Landed
  <2>2. QED
    BY <1>8, <2>1, NextBatchFits
<1>9. ASSUME NEW t \in Tabs, Abandon(t)
      PROVE  session' \in [Tabs -> Session] /\ \A u \in Tabs : Fits(session'[u], Answered)
  <2>1. Now(t, "idle", session[t].sees, <<>>, <<>>, 1, session[t].recovered)
    BY <1>1, <1>9, AbandonNow
  <2>2. /\ session' \in [Tabs -> Session] /\ \A u \in Tabs \ {t} : session'[u] = session[u]
        /\ session'[t].at = "idle" /\ session'[t].eligible = <<>>
        /\ session'[t].plan = <<>> /\ session'[t].batch = 1
    BY <2>1 DEF Now, IsSession
  <2>3. Fits(session'[t], Answered)
    BY <2>2 DEF Fits, Range, Distinct, Recipients, Planned, Landed, Recovering
  <2>4. QED
    BY <1>1, <2>2, <2>3
<1>10. ASSUME NEW t \in Tabs, Reload(t)
       PROVE  session' \in [Tabs -> Session] /\ \A u \in Tabs : Fits(session'[u], Answered)
  <2>1. PICK d \in BOOLEAN : d = rewardDistributed
    BY <1>1 DEF DbConsistent
  <2>2. Now(t, session[t].at, d, session[t].eligible, session[t].plan, session[t].batch,
            session[t].recovered)
    BY <1>1, <1>10, <2>1, ReloadNow
  <2>3. QED
    BY <1>2, <2>2, SamePlanFits
<1>11. QED
  BY <1>3, <1>4, <1>5, <1>6, <1>7, <1>8, <1>9, <1>10, SessionSteps

(* A published survey is consistent.                                       *)
LEMMA InitConsistent == Init => Consistent
<1>. SUFFICES ASSUME Init PROVE Consistent
  OBVIOUS
<1>1. PICK S, n : S = Wallets \ Late /\ n = Cardinality(S)
  OBVIOUS
<1>2. S \subseteq Wallets /\ IsFiniteSet(S) /\ n \in Nat
  BY <1>1, ConstantsAssumption, FS_Subset, FS_CardinalityType
<1>3. /\ responses \in [1..n -> S]
      /\ \A i, j \in 1..n : responses[i] = responses[j] => i = j
  BY <1>1 DEF Init, Orders
<1>4. /\ responses \in Seq(Wallets) /\ Len(responses) = n /\ Distinct(responses)
  BY <1>2, <1>3, FunctionIsSeq DEF Distinct
<1>5. reserved \subseteq Wallets \ Answered /\ marked \subseteq Answered
  BY DEF Init
<1>6. DbConsistent
  <2>1. moderation \in [Wallets -> {"clean", "flagged", "rejected"}]
    BY DEF Init
  <2>2. credited \in [Wallets -> Nat]
    BY DEF Init
  <2>3. moderations \in 0..MaxModerations /\ crashes \in 0..MaxCrashes
    BY ConstantsAssumption DEF Init
  <2>4. /\ form \in {"active", "closed"} /\ rewardDistributed \in BOOLEAN
        /\ escrowClosed \in BOOLEAN
    BY DEF Init
  <2>5. QED
    BY <1>4, <1>5, <2>1, <2>2, <2>3, <2>4 DEF DbConsistent
<1>7. Pool \in Nat \ {0} /\ RentExempt \in Nat \ {0}
  BY ConstantsAssumption
<1>8. /\ vault = deposited /\ deposited \in Nat /\ deposited >= Pool
      /\ currency \in {"SOL", "SPL"} /\ tokenVaultOpen \in BOOLEAN
  BY <1>7, ConstantsAssumption DEF Init
<1>9. maxResponses \in Nat
  BY ConstantsAssumption, FS_CardinalityType DEF Init
<1>10. paid \in [Program!Payees -> Nat]
  BY DEF Init, Program!Payees
<1>11. ChainConsistent
  <2>1. Program!TypeOK
    BY <1>8, <1>9, <1>10 DEF Init, Program!TypeOK, Program!Currency, Program!Payees
  <2>2. Program!Solvency /\ Program!PayoutDeactivates
    BY <1>8 DEF Init, Program!Solvency, Program!PayoutDeactivates
  <2>3. QED
    BY <1>8, <2>1, <2>2 DEF ChainConsistent, Init
<1>12. ASSUME NEW t \in Tabs PROVE session[t] \in Session /\ Fits(session[t], Answered)
  <2>1. PICK e \in Seq(Wallets), p \in Seq(Program!Entry), k \in Nat \ {0} :
           e = <<>> /\ p = <<>> /\ k = 1
    <3>1. 1 \in Nat \ {0} /\ <<>> \in Seq(Wallets) /\ <<>> \in Seq(Program!Entry)
      OBVIOUS
    <3>2. QED
      BY <3>1, Zenon
  <2>2. session[t] = [at |-> "idle", sees |-> FALSE, eligible |-> e,
                      plan |-> p, batch |-> k, recovered |-> FALSE]
    BY <2>1 DEF Init
  <2>3. /\ session[t].at = "idle" /\ session[t].eligible = <<>>
        /\ session[t].plan = <<>> /\ session[t].batch = 1
    BY <2>1, <2>2
  <2>4. session[t] \in Session
    BY <2>2 DEF Session, Labels
  <2>5. Fits(session[t], Answered)
    BY <2>3 DEF Fits, Range, Distinct, Recipients, Planned, Landed, Recovering
  <2>6. QED
    BY <2>4, <2>5
<1>13. session \in [Tabs -> Session]
  BY <1>12 DEF Init
<1>14. QED
  BY <1>6, <1>11, <1>12, <1>13 DEF Consistent

(* Every step keeps it.                                                    *)
LEMMA StepConsistent == Consistent /\ [Next]_vars => Consistent'
<1>. SUFFICES ASSUME Consistent, [Next]_vars PROVE Consistent'
  OBVIOUS
<1>1. ChainConsistent /\ DbConsistent /\ session \in [Tabs -> Session]
  BY DEF Consistent
<1>2. ChainConsistent'
  BY <1>1, ChainStep
<1>3. DbConsistent'
  BY DbStep
<1>4. session' \in [Tabs -> Session] /\ \A u \in Tabs : Fits(session'[u], Answered)
  BY SessionsFit
<1>5. Answered \subseteq Answered'
  BY <1>1, AnswersEffect
<1>6. \A u \in Tabs : Fits(session'[u], Answered')
  <2>. SUFFICES ASSUME NEW u \in Tabs PROVE Fits(session'[u], Answered')
    OBVIOUS
  <2>1. PICK A, B, s : A = Answered /\ B = Answered' /\ s = session'[u]
    OBVIOUS
  <2>2. Fits(s, A) /\ A \subseteq B
    BY <1>4, <1>5, <2>1
  <2>3. Fits(s, B)
    BY <2>2, FitsMore
  <2>4. QED
    BY <2>1, <2>3
<1>7. QED
  BY <1>2, <1>3, <1>4, <1>6 DEF Consistent

(* The types of the documents and sessions.                                *)
LEMMA ConsistentTypes == Consistent => TypeOK
<1>. SUFFICES ASSUME Consistent PROVE TypeOK
  OBVIOUS
<1>1. /\ ChainConsistent /\ DbConsistent /\ session \in [Tabs -> Session]
      /\ \A t \in Tabs : Fits(session[t], Answered)
  BY DEF Consistent
<1>2. Answered \subseteq Wallets /\ Len(responses) = Cardinality(Answered)
  BY <1>1, ConstantsAssumption, DistinctLength DEF DbConsistent, Answered
<1>3. ASSUME NEW t \in Tabs
      PROVE  /\ session[t].at \in Labels
             /\ session[t].sees \in BOOLEAN /\ session[t].recovered \in BOOLEAN
             /\ Range(session[t].eligible) \subseteq Answered
             /\ Recipients(session[t].plan) \subseteq Answered \cup {Creator}
             /\ session[t].batch = 1
                  \/ (session[t].batch - 1) * BatchSize < Len(session[t].plan)
  BY <1>1, SessionFields DEF Fits
<1>4. QED
  BY <1>1, <1>2, <1>3 DEF TypeOK, ChainConsistent, DbConsistent

(* The types of the documents and sessions; a session's batch is one of    *)
(* its plan, also after retries and aborted plans, for any wallets, tabs,  *)
(* batch size and number of failures.                                      *)
THEOREM PayoutTypes == Spec => []TypeOK
<1>1. Spec => []Consistent
  BY InitConsistent, StepConsistent, PTL DEF Spec
<1>2. QED
  BY <1>1, ConsistentTypes, PTL

-----------------------------------------------------------------------------
(***************************************************************************)
(* The order of the lifecycle                                              *)
(***************************************************************************)

(* What InOrder says of a session.                                         *)
Ordered(s) ==
    /\ s.at \in Landed \cup Recovering => distributed > 0
    /\ s.at = "sweep" => rewardDistributed
    /\ s.at = "confirmSweep" => EscrowSwept
    /\ s.at = "sent" => Accepted(Batch(s.plan, s.batch)) \/ distributed > 0
    /\ distributed = 0 => \A i \in 1..Len(s.plan) : s.plan[i].amount \in 1..Pool

(* InOrder, session by session.                                            *)
LEMMA InOrderIs ==
  InOrder <=> /\ Consistent
              /\ rewardDistributed => distributed > 0
              /\ EscrowSwept => vault = 0 /\ rewardDistributed
              /\ escrowClosed => EscrowSwept
              /\ \A t \in Tabs : Ordered(session[t])
  BY DEF InOrder, Ordered, CurrentBatch

(* Before the first payment the vault holds what was deposited.            *)
LEMMA VaultUntouched ==
  ASSUME InOrder, distributed = 0
  PROVE  vault = deposited /\ vault >= Pool
<1>1. /\ ChainConsistent
      /\ rewardDistributed => distributed > 0
      /\ EscrowSwept => vault = 0 /\ rewardDistributed
  BY InOrderIs DEF Consistent
<1>2. swept \in Nat /\ deposited \in Nat /\ vault \in Int /\ Pool \in Nat
  BY <1>1, ConstantsAssumption DEF ChainConsistent, Program!TypeOK
<1>3. swept = 0
  BY <1>1, <1>2 DEF EscrowSwept
<1>4. QED
  BY <1>1, <1>2, <1>3 DEF ChainConsistent, Program!Solvency

(* A batch that lands has moved money, or an earlier one has.              *)
LEMMA LandedHasPaid ==
  ASSUME InOrder, NEW t \in Tabs, Pays(t)
  PROVE  distributed' > 0
<1>1. /\ ChainConsistent /\ session \in [Tabs -> Session]
      /\ Fits(session[t], Answered) /\ Ordered(session[t])
  BY InOrderIs DEF Consistent
<1>2. distributed \in Nat /\ vault \in Nat /\ Pool \in Nat
  BY <1>1, ConstantsAssumption DEF ChainConsistent, Program!TypeOK, Program!Solvency
<1>3. /\ distributed' >= distributed /\ distributed' \in Nat
      /\ distributed' > distributed <=> Program!TotalMoved(vault, CurrentBatch(t)) > 0
  BY <1>1, PaysEffect
<1>4. CASE distributed > 0
  BY <1>2, <1>3, <1>4
<1>5. CASE distributed = 0
  <2>1. vault >= Pool
    BY <1>5, VaultUntouched
  <2>2. PICK plan, k : plan = session[t].plan /\ k = session[t].batch
    OBVIOUS
  <2>3. /\ plan \in Seq(Program!Entry) /\ k \in Nat \ {0}
        /\ \A i \in 1..Len(plan) : plan[i].amount \in 1..Pool
    BY <1>1, <1>5, <2>2, CurrentBatchType DEF Ordered
  <2>4. PICK batch \in Seq(Program!Entry) : batch = Batch(plan, k) /\ batch = CurrentBatch(t)
    BY <2>2, <2>3, BatchIs DEF CurrentBatch
  <2>5. Len(batch) > 0
    BY <2>4 DEF Pays, Accepted, Program!CanDistribute, Program!CanDistributeSpl
  <2>6. PICK lo, hi : lo = (k - 1) * BatchSize /\ hi = Least(k * BatchSize, Len(plan))
    OBVIOUS
  <2>7. /\ lo \in Nat /\ hi \in Nat
        /\ hi <= Len(plan)
        /\ Len(batch) = IF lo < hi THEN hi - lo ELSE 0
        /\ \A i \in 1..Len(batch) : batch[i] = plan[lo + i]
    <3>1. /\ (k - 1) * BatchSize \in Nat
          /\ Least(k * BatchSize, Len(plan)) \in Nat
          /\ Least(k * BatchSize, Len(plan)) <= Len(plan)
      BY <2>3, BatchIs
    <3>2. Len(Batch(plan, k)) =
             IF (k - 1) * BatchSize < Least(k * BatchSize, Len(plan))
             THEN Least(k * BatchSize, Len(plan)) - (k - 1) * BatchSize ELSE 0
      BY <2>3, BatchIs
    <3>3. \A i \in 1..Len(Batch(plan, k)) : Batch(plan, k)[i] = plan[(k - 1) * BatchSize + i]
      BY <2>3, BatchIs
    <3>4. QED
      BY <2>6, <2>4, <3>1, <3>2, <3>3
  <2>8. 1 \in 1..Len(batch) /\ lo + 1 \in 1..Len(plan)
    BY <2>3, <2>5, <2>7
  <2>9. batch[1] = plan[lo + 1] /\ plan[lo + 1].amount \in 1..Pool
    BY <2>3, <2>7, <2>8
  <2>10. batch[1].amount \in 1..vault
    BY <1>2, <2>1, <2>9
  <2>11. Program!TotalMoved(vault, batch) > 0
    BY <1>2, <2>5, <2>10, FirstEntryPays
  <2>12. QED
    BY <1>3, <1>5, <2>4, <2>11
<1>6. QED
  BY <1>2, <1>4, <1>5

(* An instruction the program accepts stays acceptable as long as the      *)
(* balances do not move.                                                   *)
LEMMA StillAccepted ==
  ASSUME NEW batch, Accepted(batch), status' # "absent",
         UNCHANGED <<currency, vault, tokenVaultOpen>>
  PROVE  Accepted(batch)'
  BY DEF Accepted, Program!CanDistribute, Program!CanDistributeSpl, Program!RentOK,
     Program!LamportVault, Program!TotalMoved, Program!Transferred, Program!Moved

(* What the chain does in one step, seen from the lifecycle.               *)
LEMMA ChainProgress ==
  ASSUME InOrder, [Next]_vars
  PROVE  /\ distributed' \in Nat /\ distributed' >= distributed
         /\ EscrowSwept => EscrowSwept'
         /\ EscrowSwept' => vault' = 0 /\ rewardDistributed
         /\ \A batch : Accepted(batch) => Accepted(batch)' \/ distributed' > 0
<1>1. /\ ChainConsistent /\ session \in [Tabs -> Session]
      /\ rewardDistributed => distributed > 0
      /\ EscrowSwept => vault = 0 /\ rewardDistributed
      /\ \A t \in Tabs : Ordered(session[t])
  BY InOrderIs DEF Consistent
<1>2. /\ distributed \in Nat /\ vault \in Nat /\ swept \in Nat /\ status # "absent"
      /\ currency \in {"SOL", "SPL"} /\ tokenVaultOpen \in BOOLEAN
  BY <1>1 DEF ChainConsistent, Program!TypeOK, Program!Solvency, Program!Currency
<1>3. CASE UNCHANGED chain
  <2>1. UNCHANGED <<status, currency, vault, tokenVaultOpen, distributed, swept>>
    BY <1>3 DEF chain
  <2>2. \A batch : Accepted(batch) => Accepted(batch)'
    BY <1>2, <2>1, StillAccepted
  <2>3. QED
    BY <1>1, <1>2, <2>1, <2>2 DEF EscrowSwept
<1>4. CASE Program!CloseSurvey(Creator)
  <2>1. /\ UNCHANGED <<currency, vault, tokenVaultOpen, distributed, swept>>
        /\ status' # "absent"
    BY <1>4 DEF Program!CloseSurvey, Program!moneyVars
  <2>2. \A batch : Accepted(batch) => Accepted(batch)'
    BY <2>1, StillAccepted
  <2>3. QED
    BY <1>1, <1>2, <2>1, <2>2 DEF EscrowSwept
<1>5. ASSUME NEW t \in Tabs, Pays(t)
      PROVE  /\ distributed' \in Nat /\ distributed' >= distributed
             /\ EscrowSwept => EscrowSwept'
             /\ EscrowSwept' => vault' = 0 /\ rewardDistributed
             /\ distributed' > 0
  <2>1. /\ vault' \in 0..vault /\ distributed' \in Nat /\ distributed' >= distributed
        /\ UNCHANGED <<currency, tokenVaultOpen, swept>>
    BY <1>1, <1>5, PaysEffect
  <2>2. distributed' > 0
    BY <1>5, LandedHasPaid
  <2>3. EscrowSwept' <=> EscrowSwept
    BY <2>1 DEF EscrowSwept
  <2>4. QED
    BY <1>1, <1>2, <2>1, <2>2, <2>3
<1>6. ASSUME NEW t \in Tabs, Sweeps, session[t].at = "sweep"
      PROVE  /\ distributed' \in Nat /\ distributed' >= distributed
             /\ EscrowSwept => EscrowSwept'
             /\ EscrowSwept' => vault' = 0 /\ rewardDistributed
             /\ distributed' > 0
  <2>1. rewardDistributed /\ distributed > 0
    BY <1>1, <1>6 DEF Ordered
  <2>2. /\ vault' = 0 /\ distributed' = distributed /\ swept' = swept + vault
        /\ currency' = currency /\ (tokenVaultOpen' => tokenVaultOpen)
    BY <1>6 DEF Sweeps, Program!Sweep, Program!surveyVars
  <2>3. EscrowSwept => EscrowSwept'
    BY <1>2, <2>2 DEF EscrowSwept
  <2>4. QED
    BY <1>2, <2>1, <2>2, <2>3
<1>7. QED
  BY <1>1, <1>3, <1>4, <1>5, <1>6, ChainSteps

(* A record that has been made stays made.                                 *)
LEMMA RecordStays ==
  ASSUME [Next]_vars, rewardDistributed
  PROVE  rewardDistributed'
  BY FormSteps

(* The sessions stay in order when the one that moves does.                *)
LEMMA OrderedNow ==
  ASSUME InOrder, [Next]_vars, NEW t \in Tabs,
         NEW at, NEW sees, NEW eligible, NEW plan, NEW k, NEW recovered,
         Now(t, at, sees, eligible, plan, k, recovered),
         at \in Landed \cup Recovering => distributed' > 0,
         at = "sweep" => rewardDistributed',
         at = "confirmSweep" => EscrowSwept',
         at = "sent" => Accepted(Batch(plan, k)) \/ distributed' > 0,
         distributed' = 0 => \A i \in 1..Len(plan) : plan[i].amount \in 1..Pool
  PROVE  \A u \in Tabs : Ordered(session[u])'
<1>1. /\ distributed' \in Nat /\ distributed' >= distributed
      /\ EscrowSwept => EscrowSwept'
      /\ \A batch : Accepted(batch) => Accepted(batch)' \/ distributed' > 0
  BY ChainProgress
<1>2. distributed \in Nat /\ \A u \in Tabs : Ordered(session[u])
  BY InOrderIs DEF Consistent, ChainConsistent, Program!TypeOK
<1>3. rewardDistributed => rewardDistributed'
  BY RecordStays
<1>4. ASSUME NEW u \in Tabs \ {t} PROVE Ordered(session[u])'
  <2>1. PICK s : s = session[u]
    OBVIOUS
  <2>2. session'[u] = s
    BY <2>1 DEF Now
  <2>3. PICK b : b = Batch(s.plan, s.batch)
    OBVIOUS
  <2>4. Accepted(b) => Accepted(b)' \/ distributed' > 0
    BY <1>1
  <2>5. s.at = "sent" => Accepted(b)' \/ distributed' > 0
    BY <1>1, <1>2, <2>1, <2>3, <2>4 DEF Ordered
  <2>6. Batch(session[u].plan, session[u].batch)' = b
    BY <2>2, <2>3 DEF Batch
  <2>7. session'[u].at = "sent" => Accepted(Batch(session[u].plan, session[u].batch))' \/ distributed' > 0
    BY <2>2, <2>5, <2>6
  <2>8. /\ s.at \in Landed \cup Recovering => distributed' > 0
        /\ s.at = "sweep" => rewardDistributed'
        /\ s.at = "confirmSweep" => EscrowSwept'
        /\ distributed' = 0 => \A i \in 1..Len(s.plan) : s.plan[i].amount \in 1..Pool
    BY <1>1, <1>2, <1>3, <2>1 DEF Ordered
  <2>9. QED
    BY <2>2, <2>7, <2>8 DEF Ordered
<1>5. Ordered(session[t])'
  <2>1. session'[t].at = at /\ session'[t].plan = plan /\ session'[t].batch = k
    BY DEF Now, IsSession
  <2>2. PICK b : b = Batch(plan, k)
    OBVIOUS
  <2>3. Accepted(b) => Accepted(b)' \/ distributed' > 0
    BY <1>1
  <2>4. Batch(session[t].plan, session[t].batch)' = b
    BY <2>1, <2>2 DEF Batch
  <2>5. session'[t].at = "sent" => Accepted(Batch(session[t].plan, session[t].batch))' \/ distributed' > 0
    BY <2>1, <2>2, <2>3, <2>4
  <2>6. QED
    BY <2>1, <2>5 DEF Ordered
<1>6. QED
  BY <1>4, <1>5

(* The sessions stay in order when one moves to another label.             *)
LEMMA OrderedGoto ==
  ASSUME InOrder, [Next]_vars, NEW t \in Tabs, NEW label \in Labels, Goto(t, label),
         label \in Landed \cup Recovering => distributed' > 0,
         label = "sweep" => rewardDistributed',
         label = "confirmSweep" => EscrowSwept',
         label = "sent" => Accepted(CurrentBatch(t)) \/ distributed' > 0
  PROVE  \A u \in Tabs : Ordered(session[u])'
<1>1. session \in [Tabs -> Session] /\ distributed \in Nat /\ Ordered(session[t])
  BY InOrderIs DEF Consistent, ChainConsistent, Program!TypeOK
<1>2. PICK at, sees, eligible, plan, k, recovered :
         /\ at = label /\ sees = session[t].sees /\ eligible = session[t].eligible
         /\ plan = session[t].plan /\ k = session[t].batch /\ recovered = session[t].recovered
  OBVIOUS
<1>3. Now(t, at, sees, eligible, plan, k, recovered)
  BY <1>1, <1>2, GotoNow
<1>4. distributed' \in Nat /\ distributed' >= distributed
  BY ChainProgress
<1>5. distributed' = 0 => \A i \in 1..Len(plan) : plan[i].amount \in 1..Pool
  BY <1>1, <1>2, <1>4 DEF Ordered
<1>6. at = "sent" => Accepted(Batch(plan, k)) \/ distributed' > 0
  BY <1>2 DEF CurrentBatch
<1>7. QED
  BY <1>2, <1>3, <1>5, <1>6, OrderedNow

(* The sessions stay in order, whichever of them moves.                    *)
LEMMA OrderedStep ==
  ASSUME InOrder, PoolCoversEveryShare, [Next]_vars
  PROVE  \A u \in Tabs : Ordered(session[u])'
<1>1. /\ session \in [Tabs -> Session] /\ ChainConsistent /\ DbConsistent
      /\ \A u \in Tabs : Ordered(session[u]) /\ Fits(session[u], Answered)
      /\ EscrowSwept => rewardDistributed
      /\ rewardDistributed => distributed > 0
  BY InOrderIs DEF Consistent
<1>2. /\ distributed \in Nat /\ vault \in Nat /\ deposited \in Nat /\ swept \in Nat
      /\ Pool \in Nat \ {0} /\ rewardDistributed \in BOOLEAN
  BY <1>1, ConstantsAssumption
    DEF ChainConsistent, DbConsistent, Program!TypeOK, Program!Solvency
<1>3. distributed' \in Nat /\ distributed' >= distributed
  BY ChainProgress
<1>4. CASE UNCHANGED session
  <2>1. SUFFICES ASSUME NEW u \in Tabs PROVE Ordered(session[u])'
    OBVIOUS
  <2>2. PICK at, sees, eligible, plan, k, recovered :
           /\ at = session[u].at /\ sees = session[u].sees /\ eligible = session[u].eligible
           /\ plan = session[u].plan /\ k = session[u].batch
           /\ recovered = session[u].recovered
    OBVIOUS
  <2>3. Now(u, at, sees, eligible, plan, k, recovered)
    BY <1>1, <1>4, <2>2 DEF Now, IsSession
  <2>4. Ordered(session[u])
    BY <1>1
  <2>5. /\ at \in Landed \cup Recovering => distributed' > 0
        /\ at = "sweep" => rewardDistributed'
        /\ at = "confirmSweep" => EscrowSwept'
        /\ at = "sent" => Accepted(Batch(plan, k)) \/ distributed' > 0
        /\ distributed' = 0 => \A i \in 1..Len(plan) : plan[i].amount \in 1..Pool
    BY <1>2, <1>3, <2>2, <2>4, ChainProgress, RecordStays DEF Ordered
  <2>6. \A v \in Tabs : Ordered(session[v])'
    BY <2>3, <2>5, OrderedNow
  <2>7. QED
    BY <2>6
<1>5. ASSUME NEW t \in Tabs, NEW label \in {"idle", "confirmClose", "responses", "balance",
                                            "buildSweep", "send"},
             Goto(t, label)
      PROVE  \A u \in Tabs : Ordered(session[u])'
  <2>1. /\ label \in Labels /\ label \notin Landed \cup Recovering
        /\ label \notin {"sweep", "confirmSweep", "sent"}
    BY DEF Labels, Landed, Recovering
  <2>2. QED
    BY <1>5, <2>1, OrderedGoto
<1>6. ASSUME NEW t \in Tabs, NEW label \in Landed \cup Recovering, Goto(t, label),
             session[t].at \in Landed \cup Recovering
      PROVE  \A u \in Tabs : Ordered(session[u])'
  <2>1. label \in Labels /\ label \notin {"sweep", "confirmSweep", "sent"}
    BY DEF Labels, Landed, Recovering
  <2>2. distributed' > 0
    BY <1>1, <1>2, <1>3, <1>6 DEF Ordered
  <2>3. QED
    BY <1>6, <2>1, <2>2, OrderedGoto
<1>7. ASSUME NEW t \in Tabs, Finish(t)
      PROVE  \A u \in Tabs : Ordered(session[u])'
  <2>1. PICK at, sees, eligible, plan, k, recovered :
           /\ at = "idle" /\ sees = TRUE /\ eligible = session[t].eligible
           /\ plan = session[t].plan /\ k = session[t].batch
           /\ recovered = session[t].recovered
    OBVIOUS
  <2>2. Now(t, at, sees, eligible, plan, k, recovered)
    BY <1>1, <1>7, <2>1, FinishNow
  <2>3. distributed' = 0 => \A i \in 1..Len(plan) : plan[i].amount \in 1..Pool
    BY <1>1, <1>2, <1>3, <2>1 DEF Ordered
  <2>4. at \notin Landed \cup Recovering /\ at \notin {"sweep", "confirmSweep", "sent"}
    BY <2>1 DEF Landed, Recovering
  <2>5. QED
    BY <2>2, <2>3, <2>4, OrderedNow
<1>8. ASSUME NEW t \in Tabs, NextBatch(t)
      PROVE  \A u \in Tabs : Ordered(session[u])'
  <2>1. PICK nb, k :
           /\ nb = (IF LastBatch(t) THEN "buildSweep" ELSE "send")
           /\ k = (IF LastBatch(t) THEN session[t].batch ELSE session[t].batch + 1)
    OBVIOUS
  <2>2. nb \in Labels /\ k \in Nat \ {0}
    BY <1>1, <2>1, CurrentBatchType DEF Labels
  <2>3. PICK sees, eligible, plan, recovered :
           /\ sees = session[t].sees /\ eligible = session[t].eligible
           /\ plan = session[t].plan /\ recovered = session[t].recovered
    OBVIOUS
  <2>4. Now(t, nb, sees, eligible, plan, k, recovered)
    BY <1>1, <1>8, <2>1, <2>2, <2>3, NextBatchNow
  <2>5. distributed' = 0 => \A i \in 1..Len(plan) : plan[i].amount \in 1..Pool
    BY <1>1, <1>2, <1>3, <2>3 DEF Ordered
  <2>6. nb \notin Landed \cup Recovering /\ nb \notin {"sweep", "confirmSweep", "sent"}
    BY <2>1 DEF Landed, Recovering
  <2>7. QED
    BY <2>4, <2>5, <2>6, OrderedNow
<1>9. ASSUME NEW t \in Tabs, SendClose(t) \/ PressDistribute(t) \/ ConfirmClose(t)
      PROVE  \A u \in Tabs : Ordered(session[u])'
  <2>1. \E label \in {"idle", "confirmClose", "responses"} : Goto(t, label)
    BY <1>9 DEF SendClose, PressDistribute, ConfirmClose
  <2>2. QED
    BY <1>5, <2>1
<1>10. ASSUME NEW t \in Tabs, ReadResponses(t)
       PROVE  \A u \in Tabs : Ordered(session[u])'
  <2>1. CASE Eligible = <<>>
    <3>1. Goto(t, "idle")
      BY <1>10, <2>1 DEF ReadResponses
    <3>2. QED
      BY <1>5, <3>1
  <2>2. CASE Eligible # <<>>
    <3>1. PICK e \in Seq(Wallets) : e = Eligible
      BY <1>1, EligibleIs
    <3>2. session' = [session EXCEPT ![t].at = "balance", ![t].eligible = e]
      BY <1>10, <2>2, <3>1, Zenon DEF ReadResponses
    <3>3. PICK at, sees, plan, k, recovered :
             /\ at = "balance" /\ sees = session[t].sees /\ plan = session[t].plan
             /\ k = session[t].batch /\ recovered = session[t].recovered
      OBVIOUS
    <3>4. Now(t, at, sees, e, plan, k, recovered)
      BY <1>1, <3>2, <3>3, ReadResponsesNow
    <3>5. distributed' = 0 => \A i \in 1..Len(plan) : plan[i].amount \in 1..Pool
      BY <1>1, <1>2, <1>3, <3>3 DEF Ordered
    <3>6. at \notin Landed \cup Recovering /\ at \notin {"sweep", "confirmSweep", "sent"}
      BY <3>3 DEF Landed, Recovering
    <3>7. QED
      BY <3>4, <3>5, <3>6, OrderedNow
  <2>3. QED
    BY <2>1, <2>2
<1>11. ASSUME NEW t \in Tabs, ReadBalance(t)
       PROVE  \A u \in Tabs : Ordered(session[u])'
  <2>1. CASE Goto(t, "idle")
    BY <1>5, <2>1
  <2>2. CASE ~Goto(t, "idle")
    <3>1. PICK units, nb, r :
             /\ units = (IF EscrowBalance = 0 THEN Pool ELSE Least(EscrowBalance, Pool))
             /\ nb = (IF EscrowBalance = 0 THEN "recoverMark" ELSE "send")
             /\ r = (EscrowBalance = 0)
      OBVIOUS
    <3>2. /\ session[t].at = "balance"
          /\ \E plan \in Plans(session[t].eligible, units) :
                session' = [session EXCEPT ![t].at = nb, ![t].eligible = <<>>, ![t].plan = plan,
                                           ![t].batch = 1, ![t].recovered = r]
      BY <1>11, <2>2, <3>1, Zenon DEF ReadBalance
    <3>3. PICK plan \in Plans(session[t].eligible, units) :
             session' = [session EXCEPT ![t].at = nb, ![t].eligible = <<>>, ![t].plan = plan,
                                        ![t].batch = 1, ![t].recovered = r]
      BY <3>2
    <3>4. units \in Nat
      BY <1>2, <3>1 DEF EscrowBalance, Least
    <3>5. PICK wallets \in Seq(Wallets) :
             /\ wallets = session[t].eligible /\ wallets # <<>> /\ Distinct(wallets)
             /\ Len(wallets) <= Cardinality(Wallets)
      <4>1. session[t].eligible \in Seq(Wallets)
        BY <1>1, SessionFields
      <4>2. session[t].eligible # <<>> /\ Distinct(session[t].eligible)
        BY <1>1, <3>2 DEF Fits
      <4>3. QED
        BY <4>1, <4>2, ConstantsAssumption, DistinctLength
    <3>6. IsPlan(plan, wallets)
      BY <3>3, <3>4, <3>5, PlansAre
    <3>7. plan \in Seq(Program!Entry) /\ nb \in Labels /\ r \in BOOLEAN
      BY <3>1, <3>6 DEF IsPlan, Labels
    <3>8. PICK sees, none, first : sees = session[t].sees /\ none = <<>> /\ first = 1
      OBVIOUS
    <3>9. Now(t, nb, sees, none, plan, first, r)
      BY <1>1, <3>3, <3>7, <3>8, ReadBalanceNow
    <3>10. distributed' = 0 => \A i \in 1..Len(plan) : plan[i].amount \in 1..Pool
      <4>1. SUFFICES ASSUME distributed = 0
                     PROVE  \A i \in 1..Len(plan) : plan[i].amount \in 1..Pool
        BY <1>2, <1>3
      <4>2. vault >= Pool
        BY <4>1, VaultUntouched
      <4>3. units = Pool
        BY <1>2, <3>1, <4>2 DEF EscrowBalance, Least
      <4>4. QED
        BY <3>3, <3>5, <4>3, PlansPaySomething
    <3>11. nb \in Landed \cup Recovering => distributed' > 0
      <4>1. SUFFICES ASSUME vault = 0 PROVE distributed > 0
        BY <1>2, <1>3, <3>1 DEF EscrowBalance, Landed, Recovering
      <4>2. CASE distributed = 0
        BY <1>2, <4>1, <4>2, VaultUntouched
      <4>3. QED
        BY <1>2, <4>2
    <3>12. nb \notin {"sweep", "confirmSweep", "sent"}
      BY <3>1
    <3>13. QED
      BY <3>9, <3>10, <3>11, <3>12, OrderedNow
  <2>3. QED
    BY <2>1, <2>2
<1>12. ASSUME NEW t \in Tabs, RecoverMark(t) \/ RecoverLosers(t) \/ RecoverFlag(t)
       PROVE  \A u \in Tabs : Ordered(session[u])'
  <2>1. CASE RecoverFlag(t)
    BY <1>5, <2>1 DEF RecoverFlag
  <2>2. CASE RecoverMark(t) \/ RecoverLosers(t)
    <3>1. session[t].at \in Recovering /\ \E label \in Recovering : Goto(t, label)
      BY <2>2 DEF RecoverMark, RecoverLosers, Recovering
    <3>2. QED
      BY <1>6, <3>1
  <2>3. QED
    BY <1>12, <2>1, <2>2
<1>13. ASSUME NEW t \in Tabs, SendBatch(t)
       PROVE  \A u \in Tabs : Ordered(session[u])'
  <2>1. CASE Accepted(CurrentBatch(t))
    <3>1. Goto(t, "sent")
      BY <1>13, <2>1 DEF SendBatch
    <3>2. "sent" \in Labels /\ "sent" \notin Landed \cup Recovering
      BY DEF Labels, Landed, Recovering
    <3>3. QED
      BY <2>1, <3>1, <3>2, OrderedGoto
  <2>2. CASE ~Accepted(CurrentBatch(t))
    <3>1. Goto(t, "idle")
      BY <1>13, <2>2 DEF SendBatch
    <3>2. QED
      BY <1>5, <3>1
  <2>3. QED
    BY <2>1, <2>2
<1>14. ASSUME NEW t \in Tabs, LandBatch(t)
       PROVE  \A u \in Tabs : Ordered(session[u])'
  <2>1. session[t].at = "sent" /\ Goto(t, "loadForm")
    BY <1>14 DEF LandBatch
  <2>2. distributed' > 0
    <3>1. CASE Accepted(CurrentBatch(t))
      <4>1. CASE currency = "SOL" /\ Program!DistributeRewards(Creator, CurrentBatch(t))
        <5>1. Pays(t)
          BY <2>1, <3>1, <4>1 DEF Pays, Program!DistributeRewards, Program!LamportVault
        <5>2. QED
          BY <5>1, LandedHasPaid
      <4>2. CASE currency = "SPL" /\ Program!DistributeRewardsSpl(Creator, CurrentBatch(t))
        <5>1. Pays(t)
          BY <2>1, <3>1, <4>2 DEF Pays, Program!DistributeRewardsSpl
        <5>2. QED
          BY <5>1, LandedHasPaid
      <4>3. QED
        BY <1>14, <3>1, <4>1, <4>2 DEF LandBatch, DistributeTx, DistributeSplTx
    <3>2. CASE ~Accepted(CurrentBatch(t))
      <4>1. distributed > 0
        BY <1>1, <2>1, <3>2 DEF Ordered, CurrentBatch
      <4>2. QED
        BY <1>2, <1>3, <4>1
    <3>3. QED
      BY <3>1, <3>2
  <2>3. "loadForm" \in Labels
    BY DEF Labels
  <2>4. QED
    BY <2>1, <2>2, <2>3, OrderedGoto
<1>15. ASSUME NEW t \in Tabs, \/ LoadForm(t) \/ ValidateWallets(t) \/ MarkBatch(t)
                              \/ CountRemaining(t) \/ MarkRemaining(t) \/ Recount(t)
       PROVE  \A u \in Tabs : Ordered(session[u])'
  <2>1. session[t].at \in Landed
    BY <1>15 DEF LoadForm, ValidateWallets, MarkBatch, CountRemaining, MarkRemaining, Recount,
         Landed
  <2>2. \/ Goto(t, "idle") \/ NextBatch(t)
        \/ \E label \in Landed : Goto(t, label)
    BY <1>15 DEF LoadForm, ValidateWallets, MarkBatch, CountRemaining, MarkRemaining, Recount,
         Landed
  <2>3. QED
    BY <1>5, <1>6, <1>8, <2>1, <2>2
<1>16. ASSUME NEW t \in Tabs, FlagDistributed(t)
       PROVE  \A u \in Tabs : Ordered(session[u])'
  BY <1>8, <1>16 DEF FlagDistributed
<1>17. ASSUME NEW t \in Tabs, BuildSweep(t)
       PROVE  \A u \in Tabs : Ordered(session[u])'
  <2>1. CASE Goto(t, "sweep") /\ rewardDistributed
    <3>1. rewardDistributed' /\ "sweep" \in Labels /\ "sweep" \notin Landed \cup Recovering
      BY <2>1, RecordStays DEF Labels, Landed, Recovering
    <3>2. QED
      BY <2>1, <3>1, OrderedGoto
  <2>2. QED
    BY <1>7, <1>17, <2>1 DEF BuildSweep
<1>18. ASSUME NEW t \in Tabs, SweepEscrow(t)
       PROVE  \A u \in Tabs : Ordered(session[u])'
  <2>1. CASE /\ \/ currency = "SOL" /\ Program!CloseEscrow(Creator)
                \/ currency = "SPL" /\ Program!CloseEscrowSpl(Creator)
             /\ Goto(t, "confirmSweep")
    <3>1. EscrowSwept'
      <4>1. CASE currency = "SOL" /\ Program!CloseEscrow(Creator)
        BY <1>2, <4>1 DEF EscrowSwept, Program!CloseEscrow, Program!LamportVault, Program!Sweep
      <4>2. CASE currency = "SPL" /\ Program!CloseEscrowSpl(Creator)
        BY <4>2 DEF EscrowSwept, Program!CloseEscrowSpl, Program!Sweep, Program!surveyVars
      <4>3. QED
        BY <2>1, <4>1, <4>2
    <3>2. "confirmSweep" \in Labels /\ "confirmSweep" \notin Landed \cup Recovering
      BY DEF Labels, Landed, Recovering
    <3>3. QED
      BY <2>1, <3>1, <3>2, OrderedGoto
  <2>2. CASE Finish(t)
    BY <1>7, <2>2
  <2>3. QED
    BY <1>18, <2>1, <2>2 DEF SweepEscrow, SweepRefused, CloseEscrowTx, CloseEscrowSplTx
<1>19. ASSUME NEW t \in Tabs, ConfirmSweep(t)
       PROVE  \A u \in Tabs : Ordered(session[u])'
  BY <1>7, <1>19 DEF ConfirmSweep
<1>20. ASSUME NEW t \in Tabs, Abandon(t)
       PROVE  \A u \in Tabs : Ordered(session[u])'
  <2>1. PICK at, sees, none, empty, first, recovered :
           /\ at = "idle" /\ sees = session[t].sees /\ none = <<>> /\ empty = <<>>
           /\ first = 1 /\ recovered = session[t].recovered
    OBVIOUS
  <2>2. Now(t, at, sees, none, empty, first, recovered)
    BY <1>1, <1>20, <2>1, AbandonNow
  <2>3. \A i \in 1..Len(empty) : empty[i].amount \in 1..Pool
    BY <2>1
  <2>4. QED
    BY <2>1, <2>2, <2>3, OrderedNow DEF Landed, Recovering
<1>21. ASSUME NEW t \in Tabs, Reload(t)
       PROVE  \A u \in Tabs : Ordered(session[u])'
  <2>1. PICK d \in BOOLEAN : d = rewardDistributed
    BY <1>2
  <2>2. PICK at, eligible, plan, k, recovered :
           /\ at = session[t].at /\ eligible = session[t].eligible
           /\ plan = session[t].plan /\ k = session[t].batch
           /\ recovered = session[t].recovered
    OBVIOUS
  <2>3. Now(t, at, d, eligible, plan, k, recovered)
    BY <1>1, <1>21, <2>1, <2>2, ReloadNow
  <2>4. at = "idle"
    BY <1>21, <2>2 DEF Reload
  <2>5. distributed' = 0 => \A i \in 1..Len(plan) : plan[i].amount \in 1..Pool
    BY <1>1, <1>2, <1>3, <2>2 DEF Ordered
  <2>6. QED
    BY <2>3, <2>4, <2>5, OrderedNow DEF Landed, Recovering
<1>22. ASSUME NEW w \in Wallets,
              \/ ReserveSlot(w) \/ CreateResponse(w)
              \/ \E verdict \in {"clean", "flagged", "rejected"} : ModerateResponse(w, verdict)
       PROVE  UNCHANGED session
  BY <1>22 DEF ReserveSlot, CreateResponse, ModerateResponse
<1>23. CASE UNCHANGED vars
  BY <1>4, <1>23 DEF vars
<1>24. ASSUME NEW t \in Tabs, Refuse(t)
       PROVE  \A u \in Tabs : Ordered(session[u])'
  BY <1>5, <1>7, <1>24 DEF Refuse
<1>25. QED
  BY <1>4, <1>9, <1>10, <1>11, <1>12, <1>13, <1>14, <1>15, <1>16, <1>17, <1>18, <1>19, <1>20,
     <1>21, <1>22, <1>23, <1>24 DEF Next, TabStep, CodeStep, SignedStep

(* The escrow of a published survey has not been swept.                    *)
LEMMA InitNotSwept ==
  ASSUME Init
  PROVE  ~EscrowSwept
<1>1. swept = 0
  BY DEF Init
<1>2. ~(currency = "SPL" /\ ~tokenVaultOpen)
  BY Zenon DEF Init
<1>3. QED
  BY <1>1, <1>2 DEF EscrowSwept

(* A published survey is in order.                                         *)
LEMMA InitInOrder == Init => InOrder
<1>. SUFFICES ASSUME Init PROVE InOrder
  OBVIOUS
<1>1. Consistent
  BY InitConsistent
<1>2. ~rewardDistributed /\ ~escrowClosed
  BY DEF Init
<1>3. ~EscrowSwept
  BY InitNotSwept
<1>4. ASSUME NEW t \in Tabs PROVE Ordered(session[t])
  <2>1. session[t].at = "idle" /\ session[t].plan = <<>>
    BY DEF Init
  <2>2. QED
    BY <2>1 DEF Ordered, Landed, Recovering
<1>5. QED
  BY <1>1, <1>2, <1>3, <1>4, InOrderIs

(* Every step keeps the order.                                             *)
LEMMA StepInOrder ==
  ASSUME InOrder, PoolCoversEveryShare, [Next]_vars
  PROVE  InOrder'
<1>1. /\ Consistent
      /\ rewardDistributed => distributed > 0
      /\ EscrowSwept => vault = 0 /\ rewardDistributed
      /\ escrowClosed => EscrowSwept
      /\ \A t \in Tabs : Ordered(session[t])
  BY InOrderIs
<1>2. Consistent'
  BY <1>1, StepConsistent
<1>3. /\ distributed' \in Nat /\ distributed' >= distributed
      /\ EscrowSwept => EscrowSwept'
      /\ EscrowSwept' => vault' = 0 /\ rewardDistributed
  BY ChainProgress
<1>4. distributed \in Nat
  BY <1>1 DEF Consistent, ChainConsistent, Program!TypeOK
<1>5. rewardDistributed' => distributed' > 0
  <2>1. CASE rewardDistributed
    BY <1>1, <1>3, <1>4, <2>1
  <2>2. ASSUME NEW t \in Tabs, RecoverFlag(t) \/ FlagDistributed(t)
        PROVE  distributed' > 0
    <3>1. session[t].at \in Landed \cup Recovering
      BY <2>2 DEF RecoverFlag, FlagDistributed, Landed, Recovering
    <3>2. QED
      BY <1>1, <1>3, <1>4, <3>1 DEF Ordered
  <2>3. QED
    BY <2>1, <2>2, FormSteps
<1>6. EscrowSwept' => vault' = 0 /\ rewardDistributed'
  BY <1>3, RecordStays
<1>7. escrowClosed' => EscrowSwept'
  <2>1. ASSUME NEW t \in Tabs, ConfirmSweep(t) PROVE EscrowSwept'
    BY <1>1, <1>3, <2>1 DEF ConfirmSweep, Ordered
  <2>2. QED
    BY <1>1, <1>3, <2>1, FormSteps
<1>8. \A t \in Tabs : Ordered(session[t])'
  BY OrderedStep
<1>9. (/\ Consistent
       /\ rewardDistributed => distributed > 0
       /\ EscrowSwept => vault = 0 /\ rewardDistributed
       /\ escrowClosed => EscrowSwept
       /\ \A t \in Tabs : Ordered(session[t]))'
  BY <1>2, <1>5, <1>6, <1>7, <1>8
<1>10. QED
  BY <1>9 DEF InOrder, Ordered, CurrentBatch

(* No step moves money and changes the form.                               *)
LEMMA OneStoreAtATime ==
  ASSUME [Next]_vars
  PROVE  UNCHANGED chain \/ UNCHANGED formVars
<1>1. CASE UNCHANGED vars
  BY <1>1 DEF vars
<1>2. ASSUME NEW w \in Wallets,
             \/ ReserveSlot(w) \/ CreateResponse(w)
             \/ \E verdict \in {"clean", "flagged", "rejected"} : ModerateResponse(w, verdict)
      PROVE  UNCHANGED chain
  BY <1>2 DEF ReserveSlot, CreateResponse, ModerateResponse
<1>3. ASSUME NEW t \in Tabs, SendClose(t) \/ LandBatch(t) \/ SweepEscrow(t)
      PROVE  UNCHANGED formVars
  BY <1>3 DEF SendClose, LandBatch, SweepEscrow, db
<1>4. ASSUME NEW t \in Tabs,
             \/ PressDistribute(t) \/ Refuse(t) \/ Abandon(t) \/ Reload(t)
             \/ ConfirmClose(t) \/ ReadResponses(t) \/ ReadBalance(t)
             \/ RecoverMark(t) \/ RecoverLosers(t) \/ RecoverFlag(t)
             \/ SendBatch(t) \/ LoadForm(t) \/ ValidateWallets(t)
             \/ MarkBatch(t) \/ CountRemaining(t) \/ MarkRemaining(t) \/ Recount(t)
             \/ FlagDistributed(t) \/ BuildSweep(t) \/ ConfirmSweep(t)
      PROVE  UNCHANGED chain
  BY <1>4 DEF PressDistribute, Refuse, Abandon, Reload, ConfirmClose, ReadResponses, ReadBalance,
       RecoverMark, RecoverLosers, RecoverFlag, SendBatch, LoadForm, ValidateWallets, MarkBatch,
       CountRemaining, MarkRemaining, Recount, FlagDistributed, BuildSweep, ConfirmSweep
<1>5. QED
  BY <1>1, <1>2, <1>3, <1>4 DEF Next, TabStep, CodeStep, SignedStep

(* How far the lifecycle is.                                               *)
Phase == IF escrowClosed THEN "recorded"
         ELSE IF EscrowSwept THEN "swept"
         ELSE IF rewardDistributed THEN "distributed"
         ELSE IF distributed > 0 THEN "paying" ELSE "escrowed"

(* The steps of the lifecycle, on the variables of Payout.                 *)
LEMMA LifecycleIs ==
  [Lifecycle!Next]_<<Phase, distributed>> =>
    [Lifecycle!Next]_<<IF escrowClosed THEN "recorded"
                       ELSE IF (currency = "SPL" /\ ~tokenVaultOpen) \/ swept > 0 THEN "swept"
                       ELSE IF rewardDistributed THEN "distributed"
                       ELSE IF distributed > 0 THEN "paying" ELSE "escrowed", distributed>>
  BY DEF Phase, EscrowSwept

(* Every step is a step of the lifecycle, or stutters.                     *)
LEMMA LifecycleStep ==
  ASSUME InOrder, [Next]_vars
  PROVE  [Lifecycle!Next]_<<Phase, distributed>>
<1>1. /\ ChainConsistent /\ DbConsistent /\ session \in [Tabs -> Session]
      /\ rewardDistributed => distributed > 0
      /\ EscrowSwept => vault = 0 /\ rewardDistributed
      /\ escrowClosed => EscrowSwept
      /\ \A t \in Tabs : Ordered(session[t])
  BY InOrderIs DEF Consistent
<1>2. /\ distributed \in Nat /\ vault \in Nat /\ swept \in Nat
      /\ currency \in {"SOL", "SPL"} /\ tokenVaultOpen \in BOOLEAN
      /\ rewardDistributed \in BOOLEAN /\ escrowClosed \in BOOLEAN
  BY <1>1 DEF ChainConsistent, DbConsistent, Program!TypeOK, Program!Solvency, Program!Currency
<1>3. CASE UNCHANGED <<distributed, EscrowSwept, rewardDistributed, escrowClosed>>
  BY <1>3 DEF Phase
<1>4. CASE UNCHANGED formVars
  <2>1. rewardDistributed' = rewardDistributed /\ escrowClosed' = escrowClosed
    BY <1>4 DEF formVars
  <2>2. CASE UNCHANGED chain \/ Program!CloseSurvey(Creator)
    BY <1>3, <2>1, <2>2 DEF EscrowSwept, chain, Program!CloseSurvey, Program!moneyVars
  <2>3. ASSUME NEW t \in Tabs, Pays(t)
        PROVE  [Lifecycle!Next]_<<Phase, distributed>>
    <3>1. /\ distributed' \in Nat
          /\ distributed' > distributed => vault > 0
          /\ distributed' # distributed => distributed' > distributed
          /\ UNCHANGED <<currency, tokenVaultOpen, swept>>
      BY <1>1, <2>3, PaysEffect
    <3>2. EscrowSwept' = EscrowSwept
      BY <3>1 DEF EscrowSwept
    <3>3. CASE distributed' = distributed
      BY <1>3, <2>1, <3>2, <3>3
    <3>4. CASE distributed' > distributed
      <4>1. vault # 0
        BY <1>2, <3>1, <3>4
      <4>2. ~EscrowSwept /\ ~escrowClosed /\ ~EscrowSwept' /\ ~escrowClosed'
        BY <1>1, <2>1, <3>2, <4>1
      <4>3. Phase = IF rewardDistributed THEN "distributed"
                    ELSE IF distributed > 0 THEN "paying" ELSE "escrowed"
        BY <4>2 DEF Phase
      <4>4. Phase' = IF rewardDistributed THEN "distributed" ELSE "paying"
        <5>1. distributed' > 0
          BY <2>3, LandedHasPaid
        <5>2. Phase' = IF rewardDistributed' THEN "distributed"
                       ELSE IF distributed' > 0 THEN "paying" ELSE "escrowed"
          BY <4>2 DEF Phase
        <5>3. QED
          BY <2>1, <5>1, <5>2
      <4>5. /\ Phase \in {"escrowed", "paying", "distributed"}
            /\ Phase' = IF Phase = "escrowed" THEN "paying" ELSE Phase
        BY <1>1, <4>3, <4>4
      <4>6. QED
        BY <3>1, <3>4, <4>5 DEF Lifecycle!Next, Lifecycle!Pay, Phase, EscrowSwept
    <3>5. QED
      BY <3>1, <3>3, <3>4
  <2>4. ASSUME NEW t \in Tabs, Sweeps, session[t].at = "sweep"
        PROVE  [Lifecycle!Next]_<<Phase, distributed>>
    <3>1. rewardDistributed
      BY <1>1, <2>4 DEF Ordered
    <3>2. /\ distributed' = distributed /\ currency' = currency /\ swept' = swept + vault
          /\ IF currency = "SPL" THEN tokenVaultOpen' = FALSE ELSE vault > 0
      BY <2>4 DEF Sweeps, Program!Sweep, Program!surveyVars
    <3>3. EscrowSwept'
      BY <1>2, <3>2 DEF EscrowSwept
    <3>4. CASE EscrowSwept
      BY <1>3, <2>1, <3>2, <3>3, <3>4 DEF Phase
    <3>5. CASE ~EscrowSwept
      <4>1. Phase = "distributed" /\ Phase' = "swept"
        BY <1>1, <2>1, <3>1, <3>3, <3>5 DEF Phase
      <4>2. QED
        BY <3>2, <4>1 DEF Lifecycle!Next, Lifecycle!Sweep, Phase, EscrowSwept
    <3>6. QED
      BY <3>4, <3>5
  <2>5. QED
    BY <1>1, <2>2, <2>3, <2>4, ChainSteps
<1>5. CASE UNCHANGED chain
  <2>1. UNCHANGED <<distributed, EscrowSwept>>
    BY <1>5 DEF chain, EscrowSwept
  <2>2. ASSUME NEW t \in Tabs, RecoverFlag(t) \/ FlagDistributed(t)
        PROVE  [Lifecycle!Next]_<<Phase, distributed>>
    <3>1. rewardDistributed' = TRUE /\ escrowClosed' = escrowClosed
      BY <2>2 DEF RecoverFlag, FlagDistributed
    <3>2. distributed > 0
      <4>1. session[t].at \in Landed \cup Recovering
        BY <2>2 DEF RecoverFlag, FlagDistributed, Landed, Recovering
      <4>2. QED
        BY <1>1, <4>1 DEF Ordered
    <3>3. CASE rewardDistributed
      BY <1>2, <1>3, <2>1, <3>1, <3>3
    <3>4. CASE ~rewardDistributed
      <4>1. ~EscrowSwept /\ ~escrowClosed /\ ~EscrowSwept' /\ ~escrowClosed'
        BY <1>1, <2>1, <3>1, <3>4
      <4>2. Phase = "paying" /\ Phase' = "distributed"
        BY <3>1, <3>2, <3>4, <4>1 DEF Phase
      <4>3. QED
        BY <2>1, <4>2 DEF Lifecycle!Next, Lifecycle!RecordDistributed, Phase, EscrowSwept
    <3>5. QED
      BY <3>3, <3>4
  <2>3. ASSUME NEW t \in Tabs, ConfirmSweep(t)
        PROVE  [Lifecycle!Next]_<<Phase, distributed>>
    <3>1. escrowClosed' = TRUE /\ rewardDistributed' = rewardDistributed
      BY <2>3 DEF ConfirmSweep
    <3>2. EscrowSwept
      BY <1>1, <2>3 DEF ConfirmSweep, Ordered
    <3>3. CASE escrowClosed
      BY <1>2, <1>3, <2>1, <3>1, <3>3
    <3>4. CASE ~escrowClosed
      <4>1. Phase = "swept" /\ Phase' = "recorded"
        BY <3>1, <3>2, <3>4 DEF Phase
      <4>2. QED
        BY <2>1, <4>1 DEF Lifecycle!Next, Lifecycle!RecordSwept, Phase, EscrowSwept
    <3>5. QED
      BY <3>3, <3>4
  <2>4. QED
    BY <1>3, <2>1, <2>2, <2>3, FormSteps
<1>6. QED
  BY <1>4, <1>5, OneStoreAtATime

(* Whatever the wallets, tabs, retries and failures: rewards are recorded  *)
(* as distributed only after the chain has paid something, the escrow is   *)
(* swept only after that record, nobody is paid after the sweep, and the   *)
(* sweep is recorded only when it happened.                                *)
THEOREM PayoutFollowsLifecycle ==
  ASSUME PoolCoversEveryShare
  PROVE  Spec => ImplementsLifecycle
<1>1. Spec => []InOrder
  BY InitInOrder, StepInOrder, PTL DEF Spec
<1>2. Init => Lifecycle!Init
  <2>. SUFFICES ASSUME Init PROVE Lifecycle!Init
    OBVIOUS
  <2>1. distributed = 0 /\ ~rewardDistributed /\ ~escrowClosed
    BY DEF Init
  <2>2. QED
    BY <2>1, InitNotSwept DEF Lifecycle!Init, EscrowSwept
<1>3. InOrder /\ [Next]_vars =>
        [Lifecycle!Next]_<<IF escrowClosed THEN "recorded"
                           ELSE IF (currency = "SPL" /\ ~tokenVaultOpen) \/ swept > 0 THEN "swept"
                           ELSE IF rewardDistributed THEN "distributed"
                           ELSE IF distributed > 0 THEN "paying" ELSE "escrowed", distributed>>
  BY LifecycleStep, LifecycleIs
<1>4. QED
  BY <1>1, <1>2, <1>3, PTL DEF Spec, ImplementsLifecycle, Lifecycle!Spec

-----------------------------------------------------------------------------
(***************************************************************************)
(* A single tab: nobody is paid twice                                      *)
(***************************************************************************)

(* What Fresh says of a session.                                           *)
FreshSession(s) ==
    /\ s.at = "balance" => Range(s.eligible) \cap marked = {}
    /\ s.at \in {"send", "sent", "loadForm", "validate", "mark"} =>
          Owed(s.plan, (s.batch - 1) * BatchSize) \cap marked = {}
    /\ s.at \in {"count", "recount", "flag"} =>
          Owed(s.plan, s.batch * BatchSize) \cap marked = {}
    /\ s.at = "losers" => s.batch * BatchSize >= Len(s.plan)

(* Fresh, session by session.                                              *)
LEMMA FreshIs ==
  Fresh <=> Consistent /\ \A t \in Tabs : FreshSession(session[t])
  BY DEF Fresh, FreshSession, LastBatch

(* Where the batches of a plan begin and end.                              *)
LEMMA BatchEdges ==
  ASSUME NEW k \in Nat \ {0}
  PROVE  /\ (k - 1) * BatchSize \in Nat /\ k * BatchSize \in Nat
         /\ k * BatchSize = (k - 1) * BatchSize + BatchSize
         /\ BatchSize \in Nat \ {0} /\ ((k + 1) - 1) * BatchSize = k * BatchSize
         /\ (1 - 1) * BatchSize = 0
<1>1. BatchSize \in Nat \ {0}
  BY ConstantsAssumption
<1>2. PICK m \in Nat : k = m + 1
  BY k - 1 \in Nat
<1>3. m * BatchSize \in Nat /\ (m + 1) * BatchSize = m * BatchSize + BatchSize /\ k - 1 = m
  BY <1>1, <1>2
<1>4. (k + 1) - 1 = k /\ 1 - 1 = 0 /\ 0 * BatchSize = 0
  BY <1>1
<1>5. QED
  BY <1>1, <1>2, <1>3, <1>4

(* Whom a batch pays, and who is still to be paid after it.                *)
LEMMA BatchAndRest ==
  ASSUME NEW plan \in Seq(Program!Entry), NEW k \in Nat \ {0},
         Distinct([i \in 1..Len(plan) |-> plan[i].to])
  PROVE  /\ Recipients(Batch(plan, k)) \subseteq Owed(plan, (k - 1) * BatchSize)
         /\ Owed(plan, k * BatchSize) \subseteq Owed(plan, (k - 1) * BatchSize)
         /\ Recipients(Batch(plan, k)) \cap Owed(plan, k * BatchSize) = {}
         /\ Owed(plan, (k - 1) * BatchSize) \subseteq Recipients(plan)
         /\ Recipients(Batch(plan, k)) \subseteq Recipients(plan)
         /\ k * BatchSize >= Len(plan) => Owed(plan, k * BatchSize) = {}
<1>1. PICK n, lo, ends, hi, batch :
         /\ n \in Nat /\ n = Len(plan) /\ lo = (k - 1) * BatchSize /\ ends = k * BatchSize
         /\ hi = Least(ends, n) /\ batch = Batch(plan, k)
  OBVIOUS
<1>2. lo \in Nat /\ ends \in Nat /\ lo <= ends
  BY <1>1, BatchEdges
<1>3. hi \in Nat /\ hi <= n /\ hi <= ends
  BY <1>1, <1>2 DEF Least
<1>4. Len(batch) = IF lo < hi THEN hi - lo ELSE 0
  BY <1>1, BatchIs
<1>5. \A i \in 1..Len(batch) : batch[i] = plan[lo + i]
  BY <1>1, BatchIs
<1>6. \A i \in 1..Len(batch) : lo + i \in lo+1..n /\ lo + i <= ends
  BY <1>1, <1>2, <1>3, <1>4
<1>7. \A i, j \in 1..n : plan[i].to = plan[j].to => i = j
  <2>. DEFINE tos == [i \in 1..n |-> plan[i].to]
  <2>1. Len(tos) = n
    <3>1. tos \in [1..n -> {plan[i].to : i \in 1..n}]
      OBVIOUS
    <3>. HIDE DEF tos
    <3>2. QED
      BY <1>1, <3>1, FunctionIsSeq
  <2>2. Distinct(tos)
    BY <1>1
  <2>3. \A i \in 1..n : tos[i] = plan[i].to
    OBVIOUS
  <2>. HIDE DEF tos
  <2>4. QED
    BY <2>1, <2>2, <2>3 DEF Distinct
<1>8. Recipients(batch) = {plan[lo + i].to : i \in 1..Len(batch)}
  BY <1>5 DEF Recipients
<1>9. Recipients(batch) \subseteq Owed(plan, lo)
  BY <1>1, <1>6, <1>8 DEF Owed
<1>10. Owed(plan, ends) \subseteq Owed(plan, lo)
  BY <1>1, <1>2 DEF Owed
<1>11. Recipients(batch) \cap Owed(plan, ends) = {}
  <2>1. SUFFICES ASSUME NEW i \in 1..Len(batch), NEW j \in ends+1..n,
                        plan[lo + i].to = plan[j].to
                 PROVE  FALSE
    BY <1>1, <1>8 DEF Owed
  <2>2. lo + i \in 1..n /\ j \in 1..n
    BY <1>2, <1>6
  <2>3. lo + i = j
    BY <1>7, <2>1, <2>2
  <2>4. QED
    BY <1>2, <1>6, <2>1, <2>3
<1>12. Owed(plan, lo) \subseteq Recipients(plan)
  BY <1>1, <1>2 DEF Owed, Recipients
<1>13. ends >= n => Owed(plan, ends) = {}
  BY <1>1, <1>2 DEF Owed
<1>14. QED
  BY <1>1, <1>9, <1>10, <1>11, <1>12, <1>13

(* With one tab, the session that moves is all there is.                   *)
LEMMA FreshNow ==
  ASSUME OneTab, NEW t \in Tabs,
         NEW at, NEW sees, NEW eligible, NEW plan, NEW k, NEW recovered,
         Now(t, at, sees, eligible, plan, k, recovered),
         at = "balance" => Range(eligible) \cap marked' = {},
         at \in {"send", "sent", "loadForm", "validate", "mark"} =>
            Owed(plan, (k - 1) * BatchSize) \cap marked' = {},
         at \in {"count", "recount", "flag"} => Owed(plan, k * BatchSize) \cap marked' = {},
         at = "losers" => k * BatchSize >= Len(plan)
  PROVE  \A u \in Tabs : FreshSession(session[u])'
<1>1. SUFFICES FreshSession(session[t])'
  BY DEF OneTab
<1>2. /\ session'[t].at = at /\ session'[t].eligible = eligible
      /\ session'[t].plan = plan /\ session'[t].batch = k
  BY DEF Now, IsSession
<1>3. QED
  BY <1>2 DEF FreshSession

(* A step to another label.                                                *)
LEMMA FreshGoto ==
  ASSUME OneTab, Fresh, NEW t \in Tabs, NEW label \in Labels \ {"balance"}, Goto(t, label),
         label \in {"send", "sent", "loadForm", "validate", "mark"} =>
            Owed(session[t].plan, (session[t].batch - 1) * BatchSize) \cap marked' = {},
         label \in {"count", "recount", "flag"} =>
            Owed(session[t].plan, session[t].batch * BatchSize) \cap marked' = {},
         label = "losers" => LastBatch(t)
  PROVE  \A u \in Tabs : FreshSession(session[u])'
<1>1. session \in [Tabs -> Session]
  BY FreshIs DEF Consistent
<1>2. PICK at, sees, eligible, plan, k, recovered :
         /\ at = label /\ sees = session[t].sees /\ eligible = session[t].eligible
         /\ plan = session[t].plan /\ k = session[t].batch /\ recovered = session[t].recovered
  OBVIOUS
<1>3. Now(t, at, sees, eligible, plan, k, recovered)
  BY <1>1, <1>2, GotoNow
<1>4. /\ at = "balance" => Range(eligible) \cap marked' = {}
      /\ at \in {"send", "sent", "loadForm", "validate", "mark"} =>
            Owed(plan, (k - 1) * BatchSize) \cap marked' = {}
      /\ at \in {"count", "recount", "flag"} => Owed(plan, k * BatchSize) \cap marked' = {}
      /\ at = "losers" => k * BatchSize >= Len(plan)
  BY <1>2 DEF LastBatch
<1>5. QED
  BY <1>3, <1>4, FreshNow

(* A plan that has just been made owes nothing to the marked responses.    *)
LEMMA NewPlanFresh ==
  ASSUME NEW wallets \in Seq(Wallets), NEW plan, IsPlan(plan, wallets), NEW taken,
         taken \subseteq Wallets, Range(wallets) \cap taken = {}
  PROVE  Owed(plan, (1 - 1) * BatchSize) \cap taken = {}
<1>1. Creator \notin Wallets
  BY ConstantsAssumption
<1>2. Recipients(plan) \cap taken = {}
  BY <1>1 DEF IsPlan
<1>3. Owed(plan, 0) \subseteq Recipients(plan)
  BY DEF Owed, Recipients
<1>4. (1 - 1) * BatchSize = 0
  BY BatchEdges, 1 \in Nat \ {0}
<1>5. QED
  BY <1>2, <1>3, <1>4

(* What a single tab has still to pay stays unrecorded.                    *)
LEMMA FreshStep ==
  ASSUME OneTab, Fresh, [Next]_vars
  PROVE  \A u \in Tabs : FreshSession(session[u])'
<1>1. /\ session \in [Tabs -> Session] /\ DbConsistent
      /\ \A u \in Tabs : FreshSession(session[u]) /\ Fits(session[u], Answered)
  BY FreshIs DEF Consistent
<1>2. /\ marked \subseteq Answered /\ credited \in [Wallets -> Nat] /\ Answered \subseteq Wallets
      /\ rewardDistributed \in BOOLEAN
  <2>1. responses \in Seq(Wallets)
    BY <1>1 DEF DbConsistent
  <2>2. Answered \subseteq Wallets
    <3>1. PICK r \in Seq(Wallets) : r = responses
      BY <2>1
    <3>2. DOMAIN r = 1..Len(r)
      OBVIOUS
    <3>3. QED
      BY <3>1, <3>2 DEF Answered, Range
  <2>3. QED
    BY <1>1, <2>2 DEF DbConsistent
<1>3. \A t \in Tabs : /\ session[t].plan \in Seq(Program!Entry) /\ session[t].batch \in Nat \ {0}
                      /\ CurrentBatch(t) \in Seq(Program!Entry)
                      /\ session[t].eligible \in Seq(Wallets)
  BY <1>1, CurrentBatchType, SessionFields
<1>4. ASSUME UNCHANGED session, marked' = marked
      PROVE  \A u \in Tabs : FreshSession(session[u])'
  BY <1>1, <1>4 DEF FreshSession
<1>5. ASSUME NEW t \in Tabs, NEW label \in {"idle", "confirmClose", "responses", "buildSweep",
                                            "recoverLosers", "recoverFlag", "sweep",
                                            "confirmSweep"},
             Goto(t, label)
      PROVE  \A u \in Tabs : FreshSession(session[u])'
  <2>1. /\ label \in Labels \ {"balance"}
        /\ label \notin {"send", "sent", "loadForm", "validate", "mark", "count", "recount",
                         "flag", "losers"}
    BY DEF Labels
  <2>2. QED
    BY <1>5, <2>1, FreshGoto
<1>6. ASSUME NEW t \in Tabs, NEW label \in {"sent", "loadForm", "validate", "mark"},
             Goto(t, label), marked' = marked,
             session[t].at \in {"send", "sent", "loadForm", "validate"}
      PROVE  \A u \in Tabs : FreshSession(session[u])'
  <2>1. Owed(session[t].plan, (session[t].batch - 1) * BatchSize) \cap marked = {}
    BY <1>1, <1>6 DEF FreshSession
  <2>2. label \in Labels \ {"balance"} /\ label \notin {"count", "recount", "flag", "losers"}
    BY DEF Labels
  <2>3. QED
    BY <1>6, <2>1, <2>2, FreshGoto
<1>7. ASSUME NEW t \in Tabs, NEW label \in {"recount", "flag"}, Goto(t, label),
             Owed(session[t].plan, session[t].batch * BatchSize) \cap marked' = {}
      PROVE  \A u \in Tabs : FreshSession(session[u])'
  <2>1. /\ label \in Labels \ {"balance"}
        /\ label \notin {"send", "sent", "loadForm", "validate", "mark", "losers"}
    BY DEF Labels
  <2>2. QED
    BY <1>7, <2>1, FreshGoto
<1>8. ASSUME NEW t \in Tabs, Finish(t)
      PROVE  \A u \in Tabs : FreshSession(session[u])'
  <2>1. PICK at, sees, eligible, plan, k, recovered :
           /\ at = "idle" /\ sees = TRUE /\ eligible = session[t].eligible
           /\ plan = session[t].plan /\ k = session[t].batch
           /\ recovered = session[t].recovered
    OBVIOUS
  <2>2. Now(t, at, sees, eligible, plan, k, recovered)
    BY <1>1, <1>8, <2>1, FinishNow
  <2>3. at = "idle"
    BY <2>1
  <2>4. QED
    BY <2>2, <2>3, FreshNow
<1>9. ASSUME NEW t \in Tabs, NextBatch(t), marked' = marked,
             session[t].at \in {"recount", "flag"}
      PROVE  \A u \in Tabs : FreshSession(session[u])'
  <2>1. PICK nb, k :
           /\ nb = (IF LastBatch(t) THEN "buildSweep" ELSE "send")
           /\ k = (IF LastBatch(t) THEN session[t].batch ELSE session[t].batch + 1)
    OBVIOUS
  <2>2. nb \in Labels /\ k \in Nat \ {0}
    BY <1>3, <2>1 DEF Labels
  <2>3. PICK sees, eligible, plan, recovered :
           /\ sees = session[t].sees /\ eligible = session[t].eligible
           /\ plan = session[t].plan /\ recovered = session[t].recovered
    OBVIOUS
  <2>4. Now(t, nb, sees, eligible, plan, k, recovered)
    BY <1>1, <1>9, <2>1, <2>2, <2>3, NextBatchNow
  <2>5. nb \in {"send", "buildSweep"}
    BY <2>1
  <2>6. nb = "send" => Owed(plan, (k - 1) * BatchSize) \cap marked' = {}
    <3>1. SUFFICES ASSUME ~LastBatch(t)
                   PROVE  Owed(plan, (k - 1) * BatchSize) \cap marked = {}
      BY <1>9, <2>1
    <3>2. (k - 1) * BatchSize = session[t].batch * BatchSize
      BY <1>3, <2>1, <3>1, BatchEdges
    <3>3. Owed(session[t].plan, session[t].batch * BatchSize) \cap marked = {}
      BY <1>1, <1>9 DEF FreshSession
    <3>4. QED
      BY <2>3, <3>2, <3>3
  <2>7. QED
    BY <2>4, <2>5, <2>6, FreshNow
<1>10. ASSUME NEW t \in Tabs, ReadResponses(t)
       PROVE  \A u \in Tabs : FreshSession(session[u])'
  <2>1. CASE Eligible = <<>>
    BY <1>5, <1>10, <2>1 DEF ReadResponses
  <2>2. CASE Eligible # <<>>
    <3>1. PICK e \in Seq(Wallets) : e = Eligible /\ Range(e) \cap marked = {}
      BY <1>1, EligibleIs
    <3>2. session' = [session EXCEPT ![t].at = "balance", ![t].eligible = e]
      BY <1>10, <2>2, <3>1, Zenon DEF ReadResponses
    <3>3. marked' = marked
      BY <1>10 DEF ReadResponses, db, ledger
    <3>4. PICK at, sees, plan, k, recovered :
             /\ at = "balance" /\ sees = session[t].sees /\ plan = session[t].plan
             /\ k = session[t].batch /\ recovered = session[t].recovered
      OBVIOUS
    <3>5. Now(t, at, sees, e, plan, k, recovered)
      BY <1>1, <3>2, <3>4, ReadResponsesNow
    <3>6. at = "balance"
      BY <3>4
    <3>7. QED
      BY <3>1, <3>3, <3>5, <3>6, FreshNow
  <2>3. QED
    BY <2>1, <2>2
<1>11. ASSUME NEW t \in Tabs, ReadBalance(t)
       PROVE  \A u \in Tabs : FreshSession(session[u])'
  <2>1. CASE Goto(t, "idle")
    BY <1>5, <2>1
  <2>2. CASE ~Goto(t, "idle")
    <3>1. PICK units, nb, r :
             /\ units = (IF EscrowBalance = 0 THEN Pool ELSE Least(EscrowBalance, Pool))
             /\ nb = (IF EscrowBalance = 0 THEN "recoverMark" ELSE "send")
             /\ r = (EscrowBalance = 0)
      OBVIOUS
    <3>2. /\ session[t].at = "balance"
          /\ \E plan \in Plans(session[t].eligible, units) :
                session' = [session EXCEPT ![t].at = nb, ![t].eligible = <<>>, ![t].plan = plan,
                                           ![t].batch = 1, ![t].recovered = r]
      BY <1>11, <2>2, <3>1, Zenon DEF ReadBalance
    <3>3. PICK plan \in Plans(session[t].eligible, units) :
             session' = [session EXCEPT ![t].at = nb, ![t].eligible = <<>>, ![t].plan = plan,
                                        ![t].batch = 1, ![t].recovered = r]
      BY <3>2
    <3>4. units \in Nat
      <4>1. vault \in Nat
        BY FreshIs DEF Consistent, ChainConsistent, Program!TypeOK, Program!Solvency
      <4>2. QED
        BY <3>1, <4>1, ConstantsAssumption DEF EscrowBalance, Least
    <3>5. PICK wallets \in Seq(Wallets) :
             /\ wallets = session[t].eligible /\ wallets # <<>> /\ Distinct(wallets)
             /\ Range(wallets) \cap marked = {}
      BY <1>1, <1>3, <3>2 DEF Fits, FreshSession
    <3>6. IsPlan(plan, wallets)
      BY <3>3, <3>4, <3>5, PlansAre
    <3>7. plan \in Seq(Program!Entry) /\ nb \in Labels /\ r \in BOOLEAN
      BY <3>1, <3>6 DEF IsPlan, Labels
    <3>8. PICK sees, none, first : sees = session[t].sees /\ none = <<>> /\ first = 1
      OBVIOUS
    <3>9. Now(t, nb, sees, none, plan, first, r)
      BY <1>1, <3>3, <3>7, <3>8, ReadBalanceNow
    <3>10. marked' = marked
      BY <1>11 DEF ReadBalance, db, ledger
    <3>11. Owed(plan, (first - 1) * BatchSize) \cap marked' = {}
      BY <1>2, <3>5, <3>6, <3>8, <3>10, NewPlanFresh
    <3>12. nb \in {"recoverMark", "send"}
      BY <3>1
    <3>13. QED
      BY <3>9, <3>11, <3>12, FreshNow
  <2>3. QED
    BY <2>1, <2>2
<1>12. ASSUME NEW t \in Tabs, \/ SendClose(t) \/ PressDistribute(t) \/ ConfirmClose(t)
                              \/ RecoverMark(t) \/ RecoverLosers(t) \/ RecoverFlag(t)
       PROVE  \A u \in Tabs : FreshSession(session[u])'
  BY <1>5, <1>12 DEF SendClose, PressDistribute, ConfirmClose, RecoverMark, RecoverLosers,
       RecoverFlag
<1>13. ASSUME NEW t \in Tabs, SendBatch(t) \/ LandBatch(t) \/ LoadForm(t) \/ ValidateWallets(t)
       PROVE  \A u \in Tabs : FreshSession(session[u])'
  <2>1. /\ session[t].at \in {"send", "sent", "loadForm", "validate"}
        /\ Goto(t, "idle") \/ \E label \in {"sent", "loadForm", "validate", "mark"} : Goto(t, label)
    BY <1>13 DEF SendBatch, LandBatch, LoadForm, ValidateWallets
  <2>2. marked' = marked
    BY <1>13 DEF SendBatch, LandBatch, LoadForm, ValidateWallets, db, ledger
  <2>3. QED
    BY <1>5, <1>6, <2>1, <2>2
<1>14. ASSUME NEW t \in Tabs, MarkBatch(t)
       PROVE  \A u \in Tabs : FreshSession(session[u])'
  <2>1. session[t].at = "mark" /\ Mark(CurrentBatch(t)) /\ Goto(t, "count")
    BY <1>14 DEF MarkBatch
  <2>2. PICK plan, k : plan = session[t].plan /\ k = session[t].batch
    OBVIOUS
  <2>3. CurrentBatch(t) = Batch(plan, k)
    BY <2>2 DEF CurrentBatch
  <2>4. marked' = marked \cup (Recipients(Batch(plan, k)) \cap Answered)
    BY <1>2, <1>3, <2>1, <2>3, MarkEffect
  <2>5. /\ Owed(plan, (k - 1) * BatchSize) \cap marked = {}
        /\ Distinct([i \in 1..Len(plan) |-> plan[i].to])
        /\ plan \in Seq(Program!Entry) /\ k \in Nat \ {0}
    BY <1>1, <1>3, <2>1, <2>2 DEF FreshSession, Fits
  <2>6. Owed(plan, k * BatchSize) \cap marked' = {}
    <3>1. /\ Owed(plan, k * BatchSize) \subseteq Owed(plan, (k - 1) * BatchSize)
          /\ Recipients(Batch(plan, k)) \cap Owed(plan, k * BatchSize) = {}
      BY <2>5, BatchAndRest
    <3>2. QED
      BY <2>4, <2>5, <3>1
  <2>7. "count" \in Labels \ {"balance"}
    BY DEF Labels
  <2>8. QED
    BY <2>1, <2>2, <2>6, <2>7, FreshGoto
<1>15. ASSUME NEW t \in Tabs, CountRemaining(t)
       PROVE  \A u \in Tabs : FreshSession(session[u])'
  <2>1. session[t].at = "count" /\ marked' = marked
    BY <1>15 DEF CountRemaining, db, ledger
  <2>2. Owed(session[t].plan, session[t].batch * BatchSize) \cap marked' = {}
    BY <1>1, <2>1 DEF FreshSession
  <2>3. CASE Goto(t, "recount")
    BY <1>7, <2>2, <2>3
  <2>4. CASE Goto(t, "losers") /\ LastBatch(t)
    <3>1. "losers" \in Labels \ {"balance"}
      BY DEF Labels
    <3>2. QED
      BY <2>4, <3>1, FreshGoto
  <2>5. QED
    BY <1>15, <2>3, <2>4 DEF CountRemaining
<1>16. ASSUME NEW t \in Tabs, MarkRemaining(t)
       PROVE  \A u \in Tabs : FreshSession(session[u])'
  <2>1. session[t].at = "losers" /\ Goto(t, "recount")
    BY <1>16 DEF MarkRemaining
  <2>2. PICK plan, k : plan = session[t].plan /\ k = session[t].batch
    OBVIOUS
  <2>3. /\ k * BatchSize >= Len(plan) /\ Distinct([i \in 1..Len(plan) |-> plan[i].to])
        /\ plan \in Seq(Program!Entry) /\ k \in Nat \ {0}
    BY <1>1, <1>3, <2>1, <2>2 DEF FreshSession, Fits
  <2>4. Owed(plan, k * BatchSize) = {}
    BY <2>3, BatchAndRest
  <2>5. QED
    BY <1>7, <2>1, <2>2, <2>4
<1>17. ASSUME NEW t \in Tabs, Recount(t) \/ FlagDistributed(t)
       PROVE  \A u \in Tabs : FreshSession(session[u])'
  <2>1. session[t].at \in {"recount", "flag"} /\ (NextBatch(t) \/ Goto(t, "flag"))
    BY <1>17 DEF Recount, FlagDistributed
  <2>2. marked' = marked
    BY <1>17 DEF Recount, FlagDistributed, db, ledger
  <2>3. Owed(session[t].plan, session[t].batch * BatchSize) \cap marked' = {}
    BY <1>1, <2>1, <2>2 DEF FreshSession
  <2>4. QED
    BY <1>7, <1>9, <2>1, <2>2, <2>3
<1>18. ASSUME NEW t \in Tabs, BuildSweep(t) \/ SweepEscrow(t) \/ ConfirmSweep(t) \/ Refuse(t)
       PROVE  \A u \in Tabs : FreshSession(session[u])'
  <2>1. Finish(t) \/ \E label \in {"idle", "sweep", "confirmSweep"} : Goto(t, label)
    BY <1>18 DEF BuildSweep, SweepEscrow, ConfirmSweep, Refuse
  <2>2. QED
    BY <1>5, <1>8, <2>1
<1>19. ASSUME NEW t \in Tabs, Abandon(t)
       PROVE  \A u \in Tabs : FreshSession(session[u])'
  <2>1. PICK at, sees, none, empty, first, recovered :
           /\ at = "idle" /\ sees = session[t].sees /\ none = <<>> /\ empty = <<>>
           /\ first = 1 /\ recovered = session[t].recovered
    OBVIOUS
  <2>2. Now(t, at, sees, none, empty, first, recovered)
    BY <1>1, <1>19, <2>1, AbandonNow
  <2>3. QED
    BY <2>1, <2>2, FreshNow
<1>20. ASSUME NEW t \in Tabs, Reload(t)
       PROVE  \A u \in Tabs : FreshSession(session[u])'
  <2>1. PICK d \in BOOLEAN : d = rewardDistributed
    BY <1>2
  <2>2. PICK at, eligible, plan, k, recovered :
           /\ at = session[t].at /\ eligible = session[t].eligible
           /\ plan = session[t].plan /\ k = session[t].batch
           /\ recovered = session[t].recovered
    OBVIOUS
  <2>3. Now(t, at, d, eligible, plan, k, recovered)
    BY <1>1, <1>20, <2>1, <2>2, ReloadNow
  <2>4. at = "idle"
    BY <1>20, <2>2 DEF Reload
  <2>5. QED
    BY <2>3, <2>4, FreshNow
<1>21. ASSUME NEW w \in Wallets,
              \/ ReserveSlot(w) \/ CreateResponse(w)
              \/ \E verdict \in {"clean", "flagged", "rejected"} : ModerateResponse(w, verdict)
       PROVE  \A u \in Tabs : FreshSession(session[u])'
  <2>1. UNCHANGED session /\ marked' = marked
    BY <1>21 DEF ReserveSlot, CreateResponse, ModerateResponse, ledger
  <2>2. QED
    BY <1>4, <2>1
<1>22. CASE UNCHANGED vars
  BY <1>4, <1>22 DEF vars, db, ledger
<1>23. QED
  BY <1>10, <1>11, <1>12, <1>13, <1>14, <1>15, <1>16, <1>17, <1>18, <1>19, <1>20, <1>21, <1>22
  DEF Next, TabStep, CodeStep, SignedStep

(* A single tab, whatever fails and is started again, keeps paying only    *)
(* what is not recorded.                                                   *)
LEMMA FreshInvariant ==
  ASSUME OneTab
  PROVE  Spec => []Fresh
<1>1. Init => Fresh
  <2>1. SUFFICES ASSUME Init PROVE Consistent /\ \A t \in Tabs : FreshSession(session[t])
    BY FreshIs
  <2>2. \A t \in Tabs : session[t].at = "idle"
    BY <2>1 DEF Init
  <2>3. QED
    BY <2>1, <2>2, InitConsistent DEF FreshSession
<1>2. Fresh /\ [Next]_vars => Fresh'
  <2>1. SUFFICES ASSUME Fresh, [Next]_vars PROVE Fresh'
    OBVIOUS
  <2>2. Consistent'
    BY <2>1, FreshIs, StepConsistent
  <2>3. \A t \in Tabs : FreshSession(session[t])'
    BY <2>1, FreshStep
  <2>4. QED
    BY <2>2, <2>3 DEF Fresh, FreshSession, LastBatch
<1>3. QED
  BY <1>1, <1>2, PTL DEF Spec

(* Whoever is not in a batch gets nothing from it.                         *)
LEMMA NotInBatch ==
  ASSUME NEW balance \in Nat, NEW batch \in Seq(Program!Entry),
         NEW w, w \notin Recipients(batch)
  PROVE  Program!Credit(balance, batch, w) = 0
<1>1. batch \in Seq(Facts!Entry)
  BY SameProgram
<1>2. \A i \in Facts!Transferred(balance, batch) : batch[i].to # w
  BY DEF Facts!Transferred, Recipients
<1>3. Facts!Credit(balance, batch, w) = 0
  BY <1>1, <1>2, ProgramAssumptions, Facts!NoCreditWithoutTransfer
<1>4. QED
  BY <1>3, SameProgram

(* Only the recipients of a batch that lands are paid.                     *)
LEMMA OnlyRecipientsPaid ==
  ASSUME Consistent, [Next]_vars, NEW w \in Wallets,
         \A t \in Tabs : Pays(t) => w \notin Recipients(CurrentBatch(t))
  PROVE  paid'[w] = paid[w]
<1>1. ChainConsistent /\ session \in [Tabs -> Session]
  BY DEF Consistent
<1>2. /\ vault \in Nat /\ paid \in [Program!Payees -> Nat] /\ w \in Program!Payees
  BY <1>1 DEF ChainConsistent, Program!TypeOK, Program!Solvency, Program!Payees
<1>3. CASE UNCHANGED chain
  BY <1>3 DEF chain
<1>4. CASE Program!CloseSurvey(Creator)
  BY <1>4 DEF Program!CloseSurvey, Program!moneyVars
<1>5. ASSUME NEW t \in Tabs, Pays(t) PROVE paid'[w] = paid[w]
  <2>1. PICK batch \in Seq(Program!Entry) : batch = CurrentBatch(t)
    BY <1>1, CurrentBatchType
  <2>2. Program!Credit(vault, batch, w) = 0
    BY <1>2, <1>5, <2>1, NotInBatch
  <2>3. paid' = [p \in Program!Payees |-> paid[p] + Program!Credit(vault, batch, p)]
    BY <1>1, <1>5, <2>1, PaysEffect
  <2>4. paid'[w] = paid[w] + 0
    BY <1>2, <2>2, <2>3
  <2>5. QED
    BY <1>2, <2>4
<1>6. CASE Sweeps
  BY <1>6 DEF Sweeps, Program!Sweep
<1>7. QED
  BY <1>1, <1>3, <1>4, <1>5, <1>6, ChainSteps

(* The wallets of the responses, marked or not.                            *)
LEMMA MarkedAreWallets ==
  ASSUME DbConsistent
  PROVE  marked \subseteq Answered /\ Answered \subseteq Wallets
<1>1. PICK r \in Seq(Wallets) : r = responses
  BY DEF DbConsistent
<1>2. DOMAIN r = 1..Len(r)
  OBVIOUS
<1>3. Answered \subseteq Wallets
  BY <1>1, <1>2 DEF Answered, Range
<1>4. QED
  BY <1>3 DEF DbConsistent

(* A response that MongoDB says is distributed is not paid (again), as     *)
(* long as the creator uses one tab: however often the distribution fails  *)
(* and is pressed again, with any batches, moderation and late responses.  *)
THEOREM SingleTabNeverPaysTwice ==
  ASSUME OneTab
  PROVE  Spec => MarkedNeverPaidAgain
<1>1. ASSUME Fresh, [Next]_vars, NEW w \in marked PROVE paid'[w] = paid[w]
  <2>1. Consistent /\ \A t \in Tabs : FreshSession(session[t])
    BY <1>1, FreshIs
  <2>2. w \in Wallets
    BY <2>1, MarkedAreWallets DEF Consistent
  <2>3. ASSUME NEW t \in Tabs, Pays(t) PROVE w \notin Recipients(CurrentBatch(t))
    <3>1. PICK plan, k : plan = session[t].plan /\ k = session[t].batch
      OBVIOUS
    <3>2. Owed(plan, (k - 1) * BatchSize) \cap marked = {}
      BY <2>1, <2>3, <3>1 DEF Pays, FreshSession
    <3>3. /\ plan \in Seq(Program!Entry) /\ k \in Nat \ {0}
          /\ Distinct([i \in 1..Len(plan) |-> plan[i].to])
      BY <2>1, <3>1, CurrentBatchType DEF Consistent, Fits
    <3>4. Recipients(Batch(plan, k)) \subseteq Owed(plan, (k - 1) * BatchSize)
      BY <3>3, BatchAndRest
    <3>5. QED
      BY <3>1, <3>2, <3>4 DEF CurrentBatch
  <2>4. QED
    BY <1>1, <2>1, <2>2, <2>3, OnlyRecipientsPaid
<1>2. Fresh /\ [Next]_vars => [\A w \in marked : paid'[w] = paid[w]]_vars
  BY <1>1
<1>3. QED
  BY <1>2, FreshInvariant, PTL DEF Spec, MarkedNeverPaidAgain

-----------------------------------------------------------------------------
(***************************************************************************)
(* A single tab that nothing disturbs                                      *)
(***************************************************************************)

(* What InSequence says of a session.                                      *)
Sequenced(s) ==
    /\ Recipients(s.plan) \subseteq Answered
    /\ rewardDistributed => s.at \in Sweeping \/ (s.at = "idle" /\ s.sees)
    /\ s.sees => s.at = "idle" /\ status = "inactive"
    /\ s.at = "sent" => Accepted(Batch(s.plan, s.batch))
    /\ s.at \in Landed \cup Recovering \cup Sweeping => status = "inactive"
    /\ s.at = "flag" => s.batch * BatchSize >= Len(s.plan)

(* InSequence, session by session.                                         *)
LEMMA InSequenceIs ==
  InSequence <=> /\ Fresh
                 /\ rewardDistributed => status = "inactive"
                 /\ \A t \in Tabs : Sequenced(session[t])
  BY DEF InSequence, Sequenced, LastBatch, CurrentBatch

(* A closed survey stays closed.                                           *)
LEMMA InactiveStays ==
  ASSUME Consistent, [Next]_vars, status = "inactive"
  PROVE  status' = "inactive"
<1>1. ChainConsistent /\ session \in [Tabs -> Session]
  BY DEF Consistent
<1>2. CASE UNCHANGED chain
  BY <1>2 DEF chain
<1>3. CASE Program!CloseSurvey(Creator)
  BY <1>3 DEF Program!CloseSurvey
<1>4. ASSUME NEW t \in Tabs, Pays(t) PROVE status' = "inactive"
  BY <1>1, <1>4, PaysEffect
<1>5. CASE Sweeps
  BY <1>5 DEF Sweeps, Program!Sweep, Program!surveyVars
<1>6. QED
  BY <1>1, <1>2, <1>3, <1>4, <1>5, ChainSteps

(* The session that moves stays in sequence.                               *)
LEMMA SequencedNow ==
  ASSUME OneTab, InSequence, [Next]_vars, NEW t \in Tabs,
         NEW at, NEW sees \in BOOLEAN, NEW eligible, NEW plan, NEW k, NEW recovered,
         Now(t, at, sees, eligible, plan, k, recovered),
         Recipients(plan) \subseteq Answered,
         rewardDistributed' => at \in Sweeping \/ (at = "idle" /\ sees),
         sees => at = "idle" /\ status' = "inactive",
         at = "sent" => Accepted(Batch(plan, k)) /\ UNCHANGED chain,
         at \in Landed \cup Recovering \cup Sweeping => status' = "inactive",
         at = "flag" => k * BatchSize >= Len(plan)
  PROVE  \A u \in Tabs : Sequenced(session[u])'
<1>1. SUFFICES Sequenced(session[t])'
  BY DEF OneTab
<1>2. /\ session'[t].at = at /\ session'[t].sees = sees
      /\ session'[t].plan = plan /\ session'[t].batch = k
  BY DEF Now, IsSession
<1>3. DbConsistent /\ ChainConsistent
  BY InSequenceIs, FreshIs DEF Consistent
<1>4. Recipients(plan) \subseteq Answered'
  BY <1>3, AnswersEffect
<1>5. session'[t].at = "sent" => Accepted(Batch(session[t].plan, session[t].batch))'
  <2>1. SUFFICES ASSUME at = "sent" PROVE Accepted(Batch(session[t].plan, session[t].batch))'
    BY <1>2
  <2>2. PICK b : b = Batch(plan, k)
    OBVIOUS
  <2>3. Accepted(b) /\ UNCHANGED <<status, currency, vault, tokenVaultOpen>>
    BY <2>1, <2>2 DEF chain
  <2>4. status' # "absent"
    BY <1>3, <2>3 DEF ChainConsistent
  <2>5. Accepted(b)'
    BY <2>3, <2>4, StillAccepted
  <2>6. Batch(session[t].plan, session[t].batch)' = b
    BY <1>2, <2>2 DEF Batch
  <2>7. QED
    BY <2>5, <2>6
<1>6. QED
  BY <1>2, <1>4, <1>5 DEF Sequenced

(* A step to another label, before the distribution is recorded.           *)
LEMMA SequencedGoto ==
  ASSUME OneTab, InSequence, [Next]_vars, NEW t \in Tabs, NEW label \in Labels, Goto(t, label),
         rewardDistributed' => label \in Sweeping,
         ~session[t].sees,
         label = "sent" => Accepted(CurrentBatch(t)) /\ UNCHANGED chain,
         label \in Landed \cup Recovering \cup Sweeping => status' = "inactive",
         label = "flag" => LastBatch(t)
  PROVE  \A u \in Tabs : Sequenced(session[u])'
<1>1. session \in [Tabs -> Session] /\ Sequenced(session[t])
  BY InSequenceIs, FreshIs DEF Consistent
<1>2. PICK at, eligible, plan, k, recovered :
         /\ at = label /\ eligible = session[t].eligible
         /\ plan = session[t].plan /\ k = session[t].batch /\ recovered = session[t].recovered
  OBVIOUS
<1>3. PICK sees \in BOOLEAN : sees = session[t].sees
  BY <1>1, SessionFields
<1>4. Now(t, at, sees, eligible, plan, k, recovered)
  BY <1>1, <1>2, <1>3, GotoNow
<1>5. /\ Recipients(plan) \subseteq Answered
      /\ rewardDistributed' => at \in Sweeping
      /\ ~sees
      /\ at = "sent" => Accepted(Batch(plan, k)) /\ UNCHANGED chain
      /\ at \in Landed \cup Recovering \cup Sweeping => status' = "inactive"
      /\ at = "flag" => k * BatchSize >= Len(plan)
  BY <1>1, <1>2, <1>3 DEF Sequenced, LastBatch, CurrentBatch
<1>6. QED
  BY <1>4, <1>5, SequencedNow

(* Nothing disturbs the tab: no step is abandoned.                         *)
LEMMA NoAbandon ==
  ASSUME Consistent, Undisturbed, NEW t \in Tabs
  PROVE  ~Abandon(t)
<1>1. crashes \in 0..MaxCrashes /\ MaxCrashes = 0
  BY DEF Consistent, DbConsistent, Undisturbed
<1>2. QED
  BY <1>1 DEF Abandon

(* When nothing is left unmarked, the plan is at its last batch.           *)
LEMMA NothingLeft ==
  ASSUME InSequence, NEW t \in Tabs, session[t].at = "recount", Unmarked = {}
  PROVE  LastBatch(t)
<1>1. /\ session \in [Tabs -> Session] /\ Sequenced(session[t]) /\ FreshSession(session[t])
  BY InSequenceIs, FreshIs DEF Consistent
<1>2. PICK plan, k : plan = session[t].plan /\ k = session[t].batch
  OBVIOUS
<1>3. plan \in Seq(Program!Entry) /\ k \in Nat \ {0} /\ k * BatchSize \in Nat
  BY <1>1, <1>2, CurrentBatchType, BatchEdges
<1>4. /\ Recipients(plan) \subseteq Answered /\ Answered \subseteq marked
      /\ Owed(plan, k * BatchSize) \cap marked = {}
  BY <1>1, <1>2 DEF Sequenced, FreshSession, Unmarked
<1>5. Owed(plan, k * BatchSize) \subseteq Recipients(plan)
  BY <1>3 DEF Owed, Recipients
<1>6. Owed(plan, k * BatchSize) = {}
  BY <1>4, <1>5
<1>7. k * BatchSize >= Len(plan)
  <2>1. SUFFICES ASSUME k * BatchSize < Len(plan) PROVE FALSE
    BY <1>3
  <2>2. Len(plan) \in k * BatchSize + 1..Len(plan)
    BY <1>3, <2>1
  <2>3. plan[Len(plan)].to \in Owed(plan, k * BatchSize)
    BY <2>2 DEF Owed
  <2>4. QED
    BY <1>6, <2>3
<1>8. QED
  BY <1>2, <1>7 DEF LastBatch

(* The tab stays in sequence.                                              *)
LEMMA SequencedStep ==
  ASSUME Undisturbed, InSequence, [Next]_vars
  PROVE  \A u \in Tabs : Sequenced(session[u])'
<1>1. /\ Consistent /\ session \in [Tabs -> Session] /\ DbConsistent /\ ChainConsistent
      /\ \A u \in Tabs : Sequenced(session[u]) /\ Fits(session[u], Answered)
      /\ rewardDistributed => status = "inactive"
      /\ OneTab /\ RewardType = "weighted"
  BY InSequenceIs, FreshIs DEF Consistent, Undisturbed
<1>2. /\ rewardDistributed \in BOOLEAN /\ vault \in Nat /\ Answered \subseteq Answered'
  BY <1>1, AnswersEffect DEF DbConsistent, ChainConsistent, Program!TypeOK, Program!Solvency
<1>3. \A t \in Tabs : /\ session[t].plan \in Seq(Program!Entry) /\ session[t].batch \in Nat \ {0}
                      /\ session[t].eligible \in Seq(Wallets) /\ session[t].sees \in BOOLEAN
                      /\ session[t].at \notin Sweeping \cup {"idle"} =>
                            ~session[t].sees /\ ~rewardDistributed
  BY <1>1, SessionFields DEF Sequenced
<1>4. status = "inactive" => status' = "inactive"
  BY <1>1, InactiveStays
<1>5. ASSUME UNCHANGED <<session, chain, formVars>>
      PROVE  \A u \in Tabs : Sequenced(session[u])'
  <2>1. SUFFICES ASSUME NEW t \in Tabs PROVE \A u \in Tabs : Sequenced(session[u])'
    OBVIOUS
  <2>2. PICK at, eligible, plan, k, recovered :
           /\ at = session[t].at /\ eligible = session[t].eligible
           /\ plan = session[t].plan /\ k = session[t].batch /\ recovered = session[t].recovered
    OBVIOUS
  <2>3. PICK sees \in BOOLEAN : sees = session[t].sees
    BY <1>3
  <2>4. Now(t, at, sees, eligible, plan, k, recovered)
    BY <1>1, <1>5, <2>2, <2>3 DEF Now, IsSession
  <2>5. rewardDistributed' = rewardDistributed /\ status' = status /\ UNCHANGED chain
    BY <1>5 DEF chain, formVars
  <2>6. Sequenced(session[t])
    BY <1>1
  <2>7. /\ Recipients(plan) \subseteq Answered
        /\ rewardDistributed' => at \in Sweeping \/ (at = "idle" /\ sees)
        /\ sees => at = "idle" /\ status' = "inactive"
        /\ at = "sent" => Accepted(Batch(plan, k)) /\ UNCHANGED chain
        /\ at \in Landed \cup Recovering \cup Sweeping => status' = "inactive"
        /\ at = "flag" => k * BatchSize >= Len(plan)
    BY <2>2, <2>3, <2>5, <2>6 DEF Sequenced
  <2>8. QED
    BY <1>1, <2>4, <2>7, SequencedNow
<1>6. ASSUME NEW t \in Tabs, NEW label \in {"idle", "confirmClose", "responses"},
             Goto(t, label), UNCHANGED rewardDistributed,
             ~rewardDistributed, ~session[t].sees
      PROVE  \A u \in Tabs : Sequenced(session[u])'
  <2>1. /\ label \in Labels /\ label \notin {"sent", "flag"}
        /\ label \notin Landed \cup Recovering \cup Sweeping
    BY DEF Labels, Landed, Recovering, Sweeping
  <2>2. QED
    BY <1>1, <1>6, <2>1, SequencedGoto
<1>7. ASSUME NEW t \in Tabs, NEW label \in Landed \cup Recovering, Goto(t, label),
             UNCHANGED rewardDistributed, status' = "inactive",
             session[t].at \notin Sweeping \cup {"idle"}, label = "flag" => LastBatch(t)
      PROVE  \A u \in Tabs : Sequenced(session[u])'
  <2>1. label \in Labels /\ label # "sent"
    BY DEF Labels, Landed, Recovering
  <2>2. QED
    BY <1>1, <1>3, <1>7, <2>1, SequencedGoto
<1>8. ASSUME NEW t \in Tabs, Finish(t), session[t].at \in Sweeping
      PROVE  \A u \in Tabs : Sequenced(session[u])'
  <2>1. PICK at, eligible, plan, k, recovered :
           /\ at = "idle" /\ eligible = session[t].eligible
           /\ plan = session[t].plan /\ k = session[t].batch
           /\ recovered = session[t].recovered
    OBVIOUS
  <2>2. PICK sees \in BOOLEAN : sees = TRUE
    OBVIOUS
  <2>3. Now(t, at, sees, eligible, plan, k, recovered)
    BY <1>1, <1>8, <2>1, <2>2, FinishNow
  <2>4. /\ Recipients(plan) \subseteq Answered /\ status' = "inactive" /\ at = "idle"
        /\ at \notin Landed \cup Recovering \cup Sweeping
    BY <1>1, <1>4, <1>8, <2>1 DEF Sequenced, Landed, Recovering, Sweeping
  <2>5. sees
    BY <2>2
  <2>6. QED
    BY <1>1, <2>3, <2>4, <2>5, SequencedNow
<1>9. ASSUME NEW t \in Tabs, NextBatch(t), session[t].at \in {"recount", "flag"},
             rewardDistributed' => LastBatch(t)
      PROVE  \A u \in Tabs : Sequenced(session[u])'
  <2>1. PICK nb, k :
           /\ nb = (IF LastBatch(t) THEN "buildSweep" ELSE "send")
           /\ k = (IF LastBatch(t) THEN session[t].batch ELSE session[t].batch + 1)
    OBVIOUS
  <2>2. nb \in Labels /\ k \in Nat \ {0}
    BY <1>3, <2>1 DEF Labels
  <2>3. PICK eligible, plan, recovered :
           /\ eligible = session[t].eligible
           /\ plan = session[t].plan /\ recovered = session[t].recovered
    OBVIOUS
  <2>4. PICK sees \in BOOLEAN : sees = session[t].sees
    BY <1>3
  <2>5. Now(t, nb, sees, eligible, plan, k, recovered)
    BY <1>1, <1>9, <2>1, <2>2, <2>3, <2>4, NextBatchNow
  <2>6. session[t].at \in Landed /\ session[t].at \notin Sweeping \cup {"idle"}
    BY <1>9 DEF Landed, Sweeping
  <2>7. Recipients(plan) \subseteq Answered /\ ~sees /\ status' = "inactive"
    BY <1>1, <1>3, <1>4, <2>3, <2>4, <2>6 DEF Sequenced
  <2>8. /\ rewardDistributed' => nb \in Sweeping
        /\ nb \notin {"sent", "flag"}
    BY <1>9, <2>1 DEF Sweeping
  <2>9. QED
    BY <1>1, <2>5, <2>7, <2>8, SequencedNow
<1>10. ASSUME NEW t \in Tabs, SendClose(t) \/ PressDistribute(t) \/ ConfirmClose(t)
       PROVE  \A u \in Tabs : Sequenced(session[u])'
  <2>1. ~session[t].sees /\ ~rewardDistributed
    <3>1. CASE SendClose(t)
      BY <1>1, <3>1 DEF SendClose, Sequenced, Sweeping
    <3>2. CASE PressDistribute(t)
      BY <1>1, <3>2 DEF PressDistribute, Sequenced, Sweeping
    <3>3. CASE ConfirmClose(t)
      BY <1>3, <3>3 DEF ConfirmClose, Sweeping
    <3>4. QED
      BY <1>10, <3>1, <3>2, <3>3
  <2>2. /\ UNCHANGED rewardDistributed
        /\ \E label \in {"idle", "confirmClose", "responses"} : Goto(t, label)
    BY <1>10 DEF SendClose, PressDistribute, ConfirmClose, db, formVars
  <2>3. QED
    BY <1>6, <2>1, <2>2
<1>11. ASSUME NEW t \in Tabs, ReadResponses(t)
       PROVE  \A u \in Tabs : Sequenced(session[u])'
  <2>1. /\ session[t].at = "responses" /\ UNCHANGED rewardDistributed
        /\ ~session[t].sees /\ ~rewardDistributed
    BY <1>3, <1>11 DEF ReadResponses, db, formVars, Sweeping
  <2>2. CASE Eligible = <<>>
    BY <1>6, <1>11, <2>1, <2>2 DEF ReadResponses
  <2>3. CASE Eligible # <<>>
    <3>1. PICK e \in Seq(Wallets) : e = Eligible
      BY <1>1, EligibleIs
    <3>2. session' = [session EXCEPT ![t].at = "balance", ![t].eligible = e]
      BY <1>11, <2>3, <3>1, Zenon DEF ReadResponses
    <3>3. PICK at, plan, k, recovered :
             /\ at = "balance" /\ plan = session[t].plan
             /\ k = session[t].batch /\ recovered = session[t].recovered
      OBVIOUS
    <3>4. PICK sees \in BOOLEAN : sees = session[t].sees
      BY <1>3
    <3>5. Now(t, at, sees, e, plan, k, recovered)
      BY <1>1, <3>2, <3>3, <3>4, ReadResponsesNow
    <3>6. /\ Recipients(plan) \subseteq Answered /\ ~sees /\ ~rewardDistributed'
          /\ at \notin {"sent", "flag"} /\ at \notin Landed \cup Recovering \cup Sweeping
      BY <1>1, <2>1, <3>3, <3>4 DEF Sequenced, Landed, Recovering, Sweeping
    <3>7. QED
      BY <1>1, <3>5, <3>6, SequencedNow
  <2>4. QED
    BY <2>2, <2>3
<1>12. ASSUME NEW t \in Tabs, ReadBalance(t)
       PROVE  \A u \in Tabs : Sequenced(session[u])'
  <2>1. /\ session[t].at = "balance" /\ UNCHANGED rewardDistributed
        /\ ~session[t].sees /\ ~rewardDistributed
    BY <1>3, <1>12 DEF ReadBalance, db, formVars, Sweeping
  <2>2. CASE Goto(t, "idle")
    BY <1>6, <2>1, <2>2
  <2>3. CASE ~Goto(t, "idle")
    <3>1. PICK units, nb, r :
             /\ units = (IF EscrowBalance = 0 THEN Pool ELSE Least(EscrowBalance, Pool))
             /\ nb = (IF EscrowBalance = 0 THEN "recoverMark" ELSE "send")
             /\ r = (EscrowBalance = 0)
      OBVIOUS
    <3>2. \E plan \in Plans(session[t].eligible, units) :
             session' = [session EXCEPT ![t].at = nb, ![t].eligible = <<>>, ![t].plan = plan,
                                        ![t].batch = 1, ![t].recovered = r]
      BY <1>12, <2>3, <3>1, Zenon DEF ReadBalance
    <3>3. PICK plan \in Plans(session[t].eligible, units) :
             session' = [session EXCEPT ![t].at = nb, ![t].eligible = <<>>, ![t].plan = plan,
                                        ![t].batch = 1, ![t].recovered = r]
      BY <3>2
    <3>4. units \in Nat
      BY <1>2, <3>1, ConstantsAssumption DEF EscrowBalance, Least
    <3>5. PICK wallets \in Seq(Wallets) :
             /\ wallets = session[t].eligible /\ wallets # <<>> /\ Distinct(wallets)
             /\ Range(wallets) \subseteq Answered
      BY <1>1, <1>3, <2>1 DEF Fits
    <3>6. IsPlan(plan, wallets)
      BY <3>3, <3>4, <3>5, PlansAre
    <3>7. /\ plan \in Seq(Program!Entry) /\ nb \in Labels /\ r \in BOOLEAN
          /\ Recipients(plan) \subseteq Answered
      BY <1>1, <3>1, <3>5, <3>6 DEF IsPlan, Labels
    <3>8. PICK none, first : none = <<>> /\ first = 1
      OBVIOUS
    <3>9. PICK sees \in BOOLEAN : sees = session[t].sees
      BY <1>3
    <3>10. Now(t, nb, sees, none, plan, first, r)
      BY <1>1, <3>3, <3>7, <3>8, <3>9, ReadBalanceNow
    <3>11. nb \in Landed \cup Recovering \cup Sweeping => status' = "inactive"
      <4>1. SUFFICES ASSUME vault = 0 PROVE status = "inactive"
        BY <1>4, <3>1 DEF EscrowBalance, Landed, Recovering, Sweeping
      <4>2. /\ deposited >= Pool /\ fees = 0 /\ deposited = vault + distributed + fees + swept
            /\ distributed \in Nat /\ swept \in Nat /\ Pool \in Nat \ {0}
            /\ distributed + swept > 0 => status = "inactive"
        BY <1>1, ConstantsAssumption
          DEF ChainConsistent, Program!TypeOK, Program!Solvency, Program!PayoutDeactivates
      <4>3. distributed + swept > 0
        BY <4>1, <4>2
      <4>4. QED
        BY <4>2, <4>3
    <3>12. ~sees /\ ~rewardDistributed' /\ nb \notin {"sent", "flag"}
      BY <2>1, <3>1, <3>9
    <3>13. QED
      BY <1>1, <3>7, <3>10, <3>11, <3>12, SequencedNow
  <2>4. QED
    BY <2>2, <2>3
<1>13. ASSUME NEW t \in Tabs, RecoverMark(t) \/ RecoverLosers(t)
       PROVE  \A u \in Tabs : Sequenced(session[u])'
  <2>1. /\ session[t].at \in Recovering /\ session[t].at \notin Sweeping \cup {"idle"}
        /\ UNCHANGED rewardDistributed
        /\ \E label \in Landed \cup Recovering : Goto(t, label) /\ label # "flag"
    BY <1>13 DEF RecoverMark, RecoverLosers, Recovering, Sweeping, formVars
  <2>2. status' = "inactive"
    BY <1>1, <1>4, <2>1 DEF Sequenced
  <2>3. QED
    BY <1>7, <2>1, <2>2
<1>14. ASSUME NEW t \in Tabs, RecoverFlag(t)
       PROVE  \A u \in Tabs : Sequenced(session[u])'
  <2>1. session[t].at = "recoverFlag" /\ Goto(t, "buildSweep")
    BY <1>14 DEF RecoverFlag
  <2>2. ~session[t].sees /\ status' = "inactive"
    BY <1>1, <1>3, <1>4, <2>1 DEF Sequenced, Recovering, Sweeping
  <2>3. "buildSweep" \in Labels \cap Sweeping
    BY DEF Labels, Sweeping
  <2>4. QED
    BY <1>1, <2>1, <2>2, <2>3, SequencedGoto
<1>15. ASSUME NEW t \in Tabs, SendBatch(t)
       PROVE  \A u \in Tabs : Sequenced(session[u])'
  <2>1. /\ session[t].at = "send" /\ UNCHANGED chain /\ UNCHANGED rewardDistributed
        /\ ~session[t].sees /\ ~rewardDistributed
    BY <1>3, <1>15 DEF SendBatch, db, formVars, Sweeping
  <2>2. CASE Accepted(CurrentBatch(t))
    <3>1. Goto(t, "sent")
      BY <1>15, <2>2 DEF SendBatch
    <3>2. "sent" \in Labels /\ "sent" \notin Landed \cup Recovering \cup Sweeping
      BY DEF Labels, Landed, Recovering, Sweeping
    <3>3. QED
      BY <1>1, <2>1, <2>2, <3>1, <3>2, SequencedGoto
  <2>3. CASE ~Accepted(CurrentBatch(t))
    BY <1>6, <1>15, <2>1, <2>3 DEF SendBatch
  <2>4. QED
    BY <2>2, <2>3
<1>16. ASSUME NEW t \in Tabs, LandBatch(t)
       PROVE  \A u \in Tabs : Sequenced(session[u])'
  <2>1. session[t].at = "sent" /\ Goto(t, "loadForm") /\ UNCHANGED rewardDistributed
    BY <1>16 DEF LandBatch, db, formVars
  <2>2. Accepted(CurrentBatch(t))
    BY <1>1, <2>1 DEF Sequenced, CurrentBatch
  <2>3. status' = "inactive"
    BY <1>16, <2>2 DEF LandBatch, DistributeTx, DistributeSplTx, Program!DistributeRewards, Program!DistributeRewardsSpl,
       Program!PayBatch
  <2>4. session[t].at \notin Sweeping \cup {"idle"} /\ "loadForm" \in Landed \cup Recovering
    BY <2>1 DEF Sweeping, Landed
  <2>5. QED
    BY <1>7, <2>1, <2>3, <2>4
<1>17. ASSUME NEW t \in Tabs, \/ LoadForm(t) \/ ValidateWallets(t) \/ MarkBatch(t)
                              \/ CountRemaining(t) \/ MarkRemaining(t) \/ Recount(t)
       PROVE  \A u \in Tabs : Sequenced(session[u])'
  <2>1. /\ session[t].at \in Landed /\ session[t].at \notin Sweeping \cup {"idle"}
        /\ UNCHANGED rewardDistributed
    BY <1>17 DEF LoadForm, ValidateWallets, MarkBatch, CountRemaining, MarkRemaining, Recount,
       Landed, Sweeping, db, formVars
  <2>2. ~session[t].sees /\ ~rewardDistributed /\ status' = "inactive"
    BY <1>1, <1>3, <1>4, <2>1 DEF Sequenced
  <2>3. CASE Recount(t)
    <3>1. CASE Goto(t, "flag") /\ Unmarked = {}
      <4>1. session[t].at = "recount"
        BY <2>3 DEF Recount
      <4>2. LastBatch(t)
        BY <3>1, <4>1, NothingLeft
      <4>3. "flag" \in Landed \cup Recovering
        BY DEF Landed
      <4>4. QED
        BY <1>7, <2>1, <2>2, <3>1, <4>2, <4>3
    <3>2. CASE NextBatch(t)
      BY <1>9, <2>1, <2>2, <2>3, <3>2 DEF Recount
    <3>3. QED
      BY <2>3, <3>1, <3>2 DEF Recount
  <2>4. CASE ~Recount(t)
    <3>1. \/ Goto(t, "idle")
          \/ \E label \in Landed \cup Recovering : Goto(t, label) /\ label # "flag"
      BY <1>17, <2>4 DEF LoadForm, ValidateWallets, MarkBatch, CountRemaining, MarkRemaining,
         Landed
    <3>2. QED
      BY <1>6, <1>7, <2>1, <2>2, <3>1
  <2>5. QED
    BY <2>3, <2>4
<1>18. ASSUME NEW t \in Tabs, FlagDistributed(t)
       PROVE  \A u \in Tabs : Sequenced(session[u])'
  <2>1. session[t].at = "flag" /\ NextBatch(t)
    BY <1>18 DEF FlagDistributed
  <2>2. LastBatch(t)
    BY <1>1, <2>1 DEF Sequenced, LastBatch
  <2>3. QED
    BY <1>9, <2>1, <2>2
<1>19. ASSUME NEW t \in Tabs, BuildSweep(t) \/ SweepEscrow(t) \/ ConfirmSweep(t)
       PROVE  \A u \in Tabs : Sequenced(session[u])'
  <2>1. session[t].at \in Sweeping
    BY <1>19 DEF BuildSweep, SweepEscrow, ConfirmSweep, Sweeping
  <2>2. Finish(t) \/ \E label \in {"sweep", "confirmSweep"} : Goto(t, label)
    BY <1>19 DEF BuildSweep, SweepEscrow, ConfirmSweep
  <2>3. ASSUME NEW label \in {"sweep", "confirmSweep"}, Goto(t, label)
        PROVE  \A u \in Tabs : Sequenced(session[u])'
    <3>1. label \in Labels /\ label \in Sweeping /\ label \notin {"sent", "flag"}
      BY DEF Labels, Sweeping
    <3>2. status' = "inactive" /\ ~session[t].sees
      BY <1>1, <1>4, <2>1 DEF Sequenced, Sweeping
    <3>3. QED
      BY <1>1, <2>3, <3>1, <3>2, SequencedGoto
  <2>4. QED
    BY <1>8, <2>1, <2>2, <2>3
<1>20. ASSUME NEW t \in Tabs, Reload(t)
       PROVE  \A u \in Tabs : Sequenced(session[u])'
  <2>1. PICK d \in BOOLEAN : d = rewardDistributed
    BY <1>2
  <2>2. PICK at, eligible, plan, k, recovered :
           /\ at = session[t].at /\ eligible = session[t].eligible
           /\ plan = session[t].plan /\ k = session[t].batch
           /\ recovered = session[t].recovered
    OBVIOUS
  <2>3. Now(t, at, d, eligible, plan, k, recovered)
    BY <1>1, <1>20, <2>1, <2>2, ReloadNow
  <2>4. /\ at = "idle" /\ rewardDistributed' = rewardDistributed
        /\ at \notin Landed \cup Recovering \cup Sweeping
    BY <1>20, <2>2 DEF Reload, db, formVars, Landed, Recovering, Sweeping
  <2>5. /\ Recipients(plan) \subseteq Answered
        /\ d => status' = "inactive"
        /\ rewardDistributed' => d
    BY <1>1, <1>4, <2>1, <2>2, <2>4 DEF Sequenced
  <2>6. QED
    BY <1>1, <2>3, <2>4, <2>5, SequencedNow
<1>21. ASSUME NEW w \in Wallets,
              \/ ReserveSlot(w) \/ CreateResponse(w)
              \/ \E verdict \in {"clean", "flagged", "rejected"} : ModerateResponse(w, verdict)
       PROVE  \A u \in Tabs : Sequenced(session[u])'
  <2>1. UNCHANGED <<session, chain, formVars>>
    BY <1>21 DEF ReserveSlot, CreateResponse, ModerateResponse
  <2>2. QED
    BY <1>5, <2>1
<1>22. CASE UNCHANGED vars
  BY <1>5, <1>22 DEF vars, db
<1>23. \A t \in Tabs : ~Abandon(t)
  BY <1>1, NoAbandon
<1>24. ASSUME NEW t \in Tabs, Refuse(t)
       PROVE  \A u \in Tabs : Sequenced(session[u])'
  <2>1. UNCHANGED chain /\ UNCHANGED rewardDistributed
    BY <1>24 DEF Refuse, db, formVars
  <2>2. CASE session[t].at \in {"send", "sent"} /\ Goto(t, "idle")
    <3>1. ~session[t].sees /\ ~rewardDistributed
      BY <1>3, <2>2 DEF Sweeping
    <3>2. QED
      BY <1>6, <2>1, <2>2, <3>1
  <2>3. CASE session[t].at = "sweep" /\ Finish(t)
    BY <1>8, <2>1, <2>3 DEF Sweeping
  <2>4. QED
    BY <1>24, <2>2, <2>3 DEF Refuse
<1>25. QED
  BY <1>10, <1>11, <1>12, <1>13, <1>14, <1>15, <1>16, <1>17, <1>18, <1>19, <1>20, <1>21, <1>22,
     <1>23, <1>24
  DEF Next, TabStep, CodeStep, SignedStep

(* An undisturbed tab goes through its steps in sequence.                  *)
LEMMA InitInSequence == Init => InSequence
<1>1. SUFFICES ASSUME Init
               PROVE  /\ Fresh
                      /\ rewardDistributed => status = "inactive"
                      /\ \A t \in Tabs : Sequenced(session[t])
  BY InSequenceIs
<1>2. \A t \in Tabs : session[t].at = "idle" /\ ~session[t].sees /\ session[t].plan = <<>>
  BY <1>1 DEF Init
<1>3. Fresh
  BY <1>1, <1>2, InitConsistent, FreshIs DEF FreshSession
<1>4. ~rewardDistributed
  BY <1>1 DEF Init
<1>5. \A t \in Tabs : Sequenced(session[t])
  BY <1>2, <1>4 DEF Sequenced, Recipients, Landed, Recovering, Sweeping
<1>6. QED
  BY <1>3, <1>4, <1>5

(* Every step keeps the sequence.                                          *)
LEMMA StepInSequence ==
  ASSUME Undisturbed, InSequence, [Next]_vars
  PROVE  InSequence'
<1>1. Fresh /\ Consistent /\ OneTab /\ \A t \in Tabs : Sequenced(session[t])
  BY InSequenceIs, FreshIs DEF Undisturbed
<1>2. Consistent'
  BY <1>1, StepConsistent
<1>3. \A t \in Tabs : FreshSession(session[t])'
  BY <1>1, FreshStep
<1>4. Fresh'
  BY <1>2, <1>3 DEF Fresh, FreshSession, LastBatch
<1>5. rewardDistributed' => status' = "inactive"
  <2>1. CASE rewardDistributed
    BY <1>1, <2>1, InSequenceIs, InactiveStays
  <2>2. ASSUME NEW t \in Tabs, RecoverFlag(t) \/ FlagDistributed(t) PROVE status' = "inactive"
    <3>1. session[t].at \in Landed \cup Recovering
      BY <2>2 DEF RecoverFlag, FlagDistributed, Landed, Recovering
    <3>2. status = "inactive"
      BY <1>1, <3>1 DEF Sequenced
    <3>3. QED
      BY <1>1, <3>2, InactiveStays
  <2>3. QED
    BY <2>1, <2>2, FormSteps
<1>6. \A t \in Tabs : Sequenced(session[t])'
  BY SequencedStep
<1>7. QED
  BY <1>4, <1>5, <1>6 DEF InSequence, Sequenced, LastBatch, CurrentBatch

(* What is planned and paid is accepted by confirmDistribute.              *)
LEMMA ConfirmationAccepts ==
  ASSUME InSequence, NEW t \in Tabs, session[t].at \in {"loadForm", "validate"}
  PROVE  ~rewardDistributed /\ Valid(CurrentBatch(t))
<1>1. /\ Sequenced(session[t]) /\ FreshSession(session[t]) /\ Fits(session[t], Answered)
      /\ session \in [Tabs -> Session]
  BY InSequenceIs, FreshIs DEF Consistent
<1>2. ~rewardDistributed
  BY <1>1 DEF Sequenced, Sweeping
<1>3. PICK plan, k : plan = session[t].plan /\ k = session[t].batch
  OBVIOUS
<1>4. /\ plan \in Seq(Program!Entry) /\ k \in Nat \ {0}
      /\ Distinct([i \in 1..Len(plan) |-> plan[i].to])
      /\ Recipients(plan) \subseteq Answered
      /\ Owed(plan, (k - 1) * BatchSize) \cap marked = {}
  BY <1>1, <1>3, CurrentBatchType DEF Sequenced, FreshSession, Fits
<1>5. Recipients(Batch(plan, k)) \subseteq Answered \ marked
  BY <1>4, BatchAndRest
<1>6. QED
  BY <1>2, <1>3, <1>5 DEF Valid, CurrentBatch, Unmarked

(* What is planned for an undisturbed tab is what confirmDistribute        *)
(* expects, from the first batch to the last, whoever answers or is        *)
(* moderated in the meantime.                                              *)
THEOREM UndisturbedPlanConfirmed ==
  ASSUME Undisturbed
  PROVE  Spec => []OwnPlanConfirmed
<1>1. Spec => []InSequence
  BY InitInSequence, StepInSequence, PTL DEF Spec
<1>2. InSequence => OwnPlanConfirmed
  BY ConfirmationAccepts DEF OwnPlanConfirmed
<1>3. QED
  BY <1>1, <1>2, PTL

-----------------------------------------------------------------------------
(***************************************************************************)
(* What a batch pays when the vault covers it                              *)
(***************************************************************************)

(* The amounts of a plan, or of a batch, as a sequence.                    *)
LEMMA AmountsAre ==
  ASSUME NEW plan \in Seq(Program!Entry)
  PROVE  /\ Amounts(plan) \in Seq(Nat) /\ Len(Amounts(plan)) = Len(plan)
         /\ \A i \in 1..Len(plan) : Amounts(plan)[i] = plan[i].amount /\ plan[i].amount \in Nat
<1>1. PICK n \in Nat : n = Len(plan)
  OBVIOUS
<1>2. \A i \in 1..n : plan[i].amount \in Nat
  BY <1>1, ElementOfSeq, EntryFields
<1>3. PICK s : s = [i \in 1..n |-> plan[i].amount]
  OBVIOUS
<1>4. s \in [1..n -> Nat] /\ \A i \in 1..n : s[i] = plan[i].amount
  BY <1>2, <1>3
<1>5. s \in Seq(Nat) /\ Len(s) = n
  BY <1>4, FunctionIsSeq
<1>6. s = Amounts(plan)
  BY <1>1, <1>3 DEF Amounts
<1>7. QED
  BY <1>1, <1>2, <1>4, <1>5, <1>6

(* The sum of the first elements grows with their number.                  *)
LEMMA PrefixGrows ==
  ASSUME NEW s \in Seq(Nat), NEW S, IsPrefixSum(S, s), NEW i \in 0..Len(s), NEW j \in i..Len(s)
  PROVE  S[i] \in Nat /\ S[j] \in Nat /\ S[i] <= S[j]
<1>1. PICK n \in Nat : n = Len(s) /\ i \in 0..n /\ j \in i..n /\ i \in Nat /\ j \in 0..n
  OBVIOUS
<1>2. S \in [0..n -> Nat] /\ S[i] \in Nat /\ S[j] \in Nat
  <2>1. S \in [0..n -> Nat]
    BY <1>1 DEF IsPrefixSum
  <2>2. QED
    BY <1>1, <2>1
<1>3. /\ S \in [0..n -> Nat]
      /\ \A k \in 1..n : S[k] = S[k-1] + s[k]
      /\ \A k \in 1..n : s[k] \in Nat
  BY <1>1 DEF IsPrefixSum
<1>. DEFINE K == {k \in Nat : \A m \in 0..n : m = i + k => S[i] <= S[m]}
<1>4. 0 \in K
  <2>1. S[i] <= S[i] /\ i + 0 = i
    BY <1>2, <1>1
  <2>2. QED
    BY <2>1
<1>5. ASSUME NEW k \in K PROVE k + 1 \in K
  <2>1. SUFFICES ASSUME NEW m \in 0..n, m = i + (k + 1) PROVE S[i] <= S[m]
    OBVIOUS
  <2>2. m \in 1..n /\ m - 1 = i + k /\ m - 1 \in 0..n
    BY <1>1, <2>1
  <2>3. S[m] = S[m-1] + s[m] /\ s[m] \in Nat
    BY <1>3, <2>2
  <2>4. S[m - 1] \in Nat /\ S[i] \in Nat
    BY <1>1, <1>3, <2>2
  <2>5. S[i] <= S[m - 1]
    BY <1>5, <2>2
  <2>6. QED
    BY <2>3, <2>4, <2>5
<1>6. K = Nat
  <2>1. K \in SUBSET Nat
    OBVIOUS
  <2>. HIDE DEF K
  <2>2. QED
    BY <1>4, <1>5, <2>1, Induction
<1>7. j - i \in Nat /\ j = i + (j - i)
  BY <1>1
<1>8. j - i \in K
  <2>. HIDE DEF K
  <2>. QED
    BY <1>6, <1>7
<1>9. QED
  BY <1>2, <1>1, <1>7, <1>8

(* When the balance covers a batch, nothing is skipped but zeros.          *)
LEMMA EnoughMovesAll ==
  ASSUME NEW balance \in Nat, NEW batch \in Seq(Program!Entry), Total(Amounts(batch)) <= balance
  PROVE  \A i \in 0..Len(batch) : /\ Program!Moved(balance, batch)[i] = SumOf(Amounts(batch))[i]
                                  /\ SumOf(Amounts(batch))[i] \in Nat
<1>1. PICK n \in Nat : n = Len(batch)
  OBVIOUS
<1>2. PICK m, s, S :
         /\ m = Program!Moved(balance, batch) /\ s = Amounts(batch) /\ S = SumOf(s)
         /\ n = Len(batch)
  BY <1>1
<1>3. /\ s \in Seq(Nat) /\ Len(s) = n /\ \A i \in 1..n : s[i] = batch[i].amount /\ s[i] \in Nat
  BY <1>2, AmountsAre
<1>4. IsPrefixSum(S, s)
  BY <1>2, <1>3, SumOfUnfolds
<1>5. S \in [0..n -> Nat] /\ S[0] = 0 /\ \A i \in 1..n : S[i] = S[i-1] + s[i]
  BY <1>3, <1>4 DEF IsPrefixSum
<1>6. IsMoved(m, balance, batch)
  BY <1>2, MovedIs
<1>7. m[0] = 0 /\ \A i \in 1..n : m[i] = IF s[i] = 0 \/ balance < m[i-1] + s[i]
                                      THEN m[i-1] ELSE m[i-1] + s[i]
  BY <1>2, <1>3, <1>6 DEF IsMoved
<1>8. \A i \in 0..n : S[i] <= balance
  <2>1. SUFFICES ASSUME NEW i \in 0..n PROVE S[i] <= balance
    OBVIOUS
  <2>2. n \in i..n
    OBVIOUS
  <2>3. S[i] \in Nat /\ S[n] \in Nat /\ S[i] <= S[n]
    BY <1>3, <1>4, <2>2, PrefixGrows
  <2>4. S[n] <= balance
    BY <1>2, <1>3 DEF Total
  <2>5. QED
    BY <2>3, <2>4
<1>. DEFINE K == {k \in Nat : k <= n => m[k] = S[k]}
<1>9. 0 \in K
  BY <1>5, <1>7
<1>10. ASSUME NEW k \in K PROVE k + 1 \in K
  <2>1. SUFFICES ASSUME k + 1 <= n PROVE m[k + 1] = S[k + 1]
    OBVIOUS
  <2>2. PICK i \in 1..n : i = k + 1 /\ i - 1 = k /\ k \in 0..n
    BY <2>1
  <2>3. m[k] = S[k] /\ S[k] \in Nat /\ s[i] \in Nat /\ S[i] = S[k] + s[i] /\ S[i] <= balance
    BY <1>3, <1>5, <1>8, <1>10, <2>2
  <2>4. m[i] = IF s[i] = 0 \/ balance < S[k] + s[i] THEN S[k] ELSE S[k] + s[i]
    BY <1>7, <2>2, <2>3
  <2>5. m[i] = S[i]
    BY <2>3, <2>4
  <2>6. QED
    BY <2>2, <2>5
<1>11. K = Nat
  <2>1. K \in SUBSET Nat
    OBVIOUS
  <2>. HIDE DEF K
  <2>2. QED
    BY <1>9, <1>10, <2>1, Induction
<1>12. QED
  BY <1>2, <1>5, <1>11

(* What a payee has received from the first i entries of a batch.          *)
IsReceived(received, moved, batch, payee) ==
    /\ received[0] = 0
    /\ \A i \in 1..Len(batch) :
          received[i] = received[i-1] + (IF batch[i].to = payee THEN moved[i] - moved[i-1] ELSE 0)

(* The credit of a payee is what it has received at the end of the loop.   *)
LEMMA ReceivedIs ==
  ASSUME NEW balance \in Nat, NEW batch \in Seq(Program!Entry), NEW payee
  PROVE  \E received : /\ IsReceived(received, Program!Moved(balance, batch), batch, payee)
                       /\ Program!Credit(balance, batch, payee) = received[Len(batch)]
<1>1. batch \in Seq(Facts!Entry)
  BY SameProgram
<1>2. PICK r : r = Facts!Received(balance, batch, payee)
  OBVIOUS
<1>3. /\ r[0] = 0
      /\ \A i \in 1..Len(batch) :
            r[i] = r[i-1] + (IF batch[i].to = payee
                             THEN Facts!Moved(balance, batch)[i] - Facts!Moved(balance, batch)[i-1]
                             ELSE 0)
  BY <1>1, <1>2, ProgramAssumptions, Facts!ReceivedUnfolds
<1>4. IsReceived(r, Facts!Moved(balance, batch), batch, payee)
  BY <1>3 DEF IsReceived
<1>5. Facts!Credit(balance, batch, payee) = r[Len(batch)]
  BY <1>2 DEF Facts!Credit
<1>6. QED
  BY <1>4, <1>5, SameProgram

(* When the balance covers a batch, every recipient gets its amount.       *)
LEMMA EnoughCreditsAll ==
  ASSUME NEW balance \in Nat, NEW batch \in Seq(Program!Entry), Total(Amounts(batch)) <= balance,
         \A i, j \in 1..Len(batch) : batch[i].to = batch[j].to => i = j, NEW e \in 1..Len(batch)
  PROVE  Program!Credit(balance, batch, batch[e].to) = batch[e].amount
<1>1. PICK n \in Nat : n = Len(batch)
  OBVIOUS
<1>2. PICK m, S, p, a :
         /\ m = Program!Moved(balance, batch) /\ S = SumOf(Amounts(batch)) /\ n = Len(batch)
         /\ p = batch[e].to /\ a = batch[e].amount
  BY <1>1
<1>3. PICK r : IsReceived(r, m, batch, p) /\ Program!Credit(balance, batch, p) = r[n]
  BY <1>2, ReceivedIs
<1>4. \A i \in 0..n : m[i] = S[i] /\ S[i] \in Nat
  BY <1>2, EnoughMovesAll
<1>5. S[e] = S[e - 1] + a /\ a \in Nat /\ e \in 0..n /\ e - 1 \in 0..n
  <2>1. IsPrefixSum(S, Amounts(batch))
    BY <1>2, AmountsAre, SumOfUnfolds
  <2>2. S[e] = S[e - 1] + Amounts(batch)[e]
    BY <1>2, <2>1, AmountsAre DEF IsPrefixSum
  <2>3. QED
    BY <1>2, <2>2, AmountsAre
<1>6. m[e] - m[e - 1] = a
  <2>1. m[e] = S[e] /\ m[e - 1] = S[e - 1] /\ S[e - 1] \in Nat
    BY <1>4, <1>5
  <2>2. QED
    BY <1>5, <2>1
<1>7. r[0] = 0 /\ \A i \in 1..n : r[i] = r[i - 1] + (IF i = e THEN a ELSE 0)
  <2>1. ASSUME NEW i \in 1..n PROVE r[i] = r[i - 1] + (IF i = e THEN a ELSE 0)
    <3>1. r[i] = r[i-1] + (IF batch[i].to = p THEN m[i] - m[i-1] ELSE 0)
      BY <1>2, <1>3 DEF IsReceived
    <3>2. batch[i].to = p <=> i = e
      BY <1>2
    <3>3. QED
      BY <1>6, <3>1, <3>2
  <2>2. QED
    BY <1>3, <2>1 DEF IsReceived
<1>. DEFINE K == {k \in Nat : k <= n => r[k] = IF k < e THEN 0 ELSE a}
<1>8. 0 \in K
  BY <1>7
<1>9. ASSUME NEW k \in K PROVE k + 1 \in K
  <2>1. SUFFICES ASSUME k + 1 <= n PROVE r[k + 1] = IF k + 1 < e THEN 0 ELSE a
    OBVIOUS
  <2>2. PICK i \in 1..n : i = k + 1 /\ i - 1 = k
    BY <2>1
  <2>3. r[k] = IF k < e THEN 0 ELSE a
    BY <1>9, <2>1
  <2>4. r[i] = r[k] + (IF i = e THEN a ELSE 0)
    BY <1>7, <2>2
  <2>5. e \in Nat
    BY <1>2
  <2>6. QED
    BY <1>5, <2>2, <2>3, <2>4, <2>5
<1>10. K = Nat
  <2>1. K \in SUBSET Nat
    OBVIOUS
  <2>. HIDE DEF K
  <2>2. QED
    BY <1>8, <1>9, <2>1, Induction
<1>11. r[n] = a
  BY <1>2, <1>10
<1>12. QED
  BY <1>2, <1>3, <1>11

(* The entries of a plan are for distinct recipients.                      *)
LEMMA RecipientsDiffer ==
  ASSUME NEW plan \in Seq(Program!Entry), Distinct([i \in 1..Len(plan) |-> plan[i].to])
  PROVE  \A i, j \in 1..Len(plan) : plan[i].to = plan[j].to => i = j
<1>. DEFINE tos == [i \in 1..Len(plan) |-> plan[i].to]
<1>1. Len(tos) = Len(plan)
  <2>1. tos \in [1..Len(plan) -> {plan[i].to : i \in 1..Len(plan)}] /\ Len(plan) \in Nat
    OBVIOUS
  <2>. HIDE DEF tos
  <2>2. QED
    BY <2>1, FunctionIsSeq
<1>2. Distinct(tos) /\ \A i \in 1..Len(plan) : tos[i] = plan[i].to
  OBVIOUS
<1>. HIDE DEF tos
<1>3. QED
  BY <1>1, <1>2 DEF Distinct

(* What a batch amounts to, in terms of the plan it is a slice of.         *)
LEMMA SliceSum ==
  ASSUME NEW plan \in Seq(Program!Entry), NEW k \in Nat \ {0}, (k - 1) * BatchSize < Len(plan)
  PROVE  Total(Amounts(Batch(plan, k))) =
           SumOf(Amounts(plan))[Least(k * BatchSize, Len(plan))]
             - SumOf(Amounts(plan))[Least((k - 1) * BatchSize, Len(plan))]
<1>1. PICK n \in Nat : n = Len(plan)
  OBVIOUS
<1>2. PICK lo \in Nat, ends \in Nat : lo = (k - 1) * BatchSize /\ ends = k * BatchSize
  BY BatchEdges
<1>3. PICK hi : hi = Least(ends, n)
  OBVIOUS
<1>4. /\ lo < n /\ hi \in lo+1..n /\ Least(lo, n) = lo
  <2>1. BatchSize \in Nat \ {0} /\ ends = lo + BatchSize
    BY <1>2, BatchEdges
  <2>2. QED
    BY <1>1, <1>2, <1>3, <2>1 DEF Least
<1>5. PICK batch, s, S, q, Q :
         /\ batch = Batch(plan, k) /\ s = Amounts(plan) /\ S = SumOf(s)
         /\ q = Amounts(batch) /\ Q = SumOf(q)
  OBVIOUS
<1>6. batch \in Seq(Program!Entry) /\ Len(batch) = hi - lo
  <2>1. /\ batch \in Seq(Program!Entry)
        /\ Len(batch) = IF lo < hi THEN hi - lo ELSE 0
    BY <1>1, <1>2, <1>3, <1>5, BatchIs
  <2>2. QED
    BY <1>4, <2>1
<1>7. \A i \in 1..hi - lo : batch[i] = plan[lo + i]
  <2>1. \A i \in 1..Len(batch) : batch[i] = plan[(k - 1) * BatchSize + i]
    BY <1>5, BatchIs
  <2>2. QED
    BY <1>2, <1>6, <2>1
<1>8. /\ s \in Seq(Nat) /\ Len(s) = n /\ q \in Seq(Nat) /\ Len(q) = hi - lo
      /\ \A i \in 1..n : s[i] = plan[i].amount /\ s[i] \in Nat
      /\ \A i \in 1..hi - lo : q[i] = batch[i].amount
  BY <1>1, <1>5, <1>6, AmountsAre
<1>9. /\ S \in [0..n -> Nat] /\ \A i \in 1..n : S[i] = S[i-1] + s[i]
      /\ Q[0] = 0 /\ \A i \in 1..hi - lo : Q[i] = Q[i-1] + q[i]
  <2>1. IsPrefixSum(S, s) /\ IsPrefixSum(Q, q)
    BY <1>5, <1>8, SumOfUnfolds
  <2>2. QED
    BY <1>8, <2>1 DEF IsPrefixSum
<1>. DEFINE K == {i \in Nat : \A m \in lo..hi : m = lo + i => Q[i] = S[m] - S[lo]}
<1>10. 0 \in K
  <2>1. S[lo] \in Nat /\ lo + 0 = lo
    BY <1>1, <1>2, <1>4, <1>9
  <2>2. QED
    BY <1>9, <2>1
<1>11. ASSUME NEW i \in K PROVE i + 1 \in K
  <2>1. SUFFICES ASSUME NEW m \in lo..hi, m = lo + (i + 1) PROVE Q[i + 1] = S[m] - S[lo]
    OBVIOUS
  <2>2. m \in 1..n /\ m - 1 = lo + i /\ m - 1 \in lo..hi /\ m - 1 \in 0..n
    BY <1>1, <1>2, <1>4, <2>1
  <2>3. PICK j \in 1..hi - lo : j = i + 1 /\ j - 1 = i /\ lo + j = m
    BY <1>2, <1>4, <2>1
  <2>4. Q[i] = S[m - 1] - S[lo] /\ S[m - 1] \in Nat /\ S[lo] \in Nat
    <3>1. lo \in 0..n
      BY <1>1, <1>2, <1>4
    <3>2. QED
      BY <1>9, <1>11, <2>2, <3>1
  <2>5. S[m] = S[m - 1] + s[m] /\ s[m] \in Nat
    BY <1>8, <1>9, <2>2
  <2>6. Q[j] = Q[i] + s[m]
    <3>1. q[j] = s[m]
      BY <1>7, <1>8, <2>2, <2>3
    <3>2. QED
      BY <1>9, <2>3, <3>1
  <2>7. Q[j] = S[m] - S[lo]
    BY <2>4, <2>5, <2>6
  <2>8. QED
    BY <2>3, <2>7
<1>12. K = Nat
  <2>1. K \in SUBSET Nat
    OBVIOUS
  <2>. HIDE DEF K
  <2>2. QED
    BY <1>10, <1>11, <2>1, Induction
<1>13. hi - lo \in Nat /\ hi \in lo..hi /\ hi = lo + (hi - lo)
  BY <1>1, <1>2, <1>4
<1>14. hi - lo \in K
  <2>. HIDE DEF K
  <2>. QED
    BY <1>12, <1>13
<1>15. Q[hi - lo] = S[hi] - S[lo]
  BY <1>13, <1>14
<1>16. Total(q) = Q[hi - lo]
  BY <1>5, <1>8 DEF Total
<1>17. QED
  BY <1>1, <1>2, <1>3, <1>4, <1>5, <1>15, <1>16

(* An entry of a plan up to the end of a batch is in the batch, or before  *)
(* it and then its recipient is not one of the batch.                      *)
LEMMA BatchSplits ==
  ASSUME NEW plan \in Seq(Program!Entry), NEW k \in Nat \ {0},
         (k - 1) * BatchSize < Len(plan), Distinct([i \in 1..Len(plan) |-> plan[i].to])
  PROVE  /\ \A i, j \in 1..Len(Batch(plan, k)) :
               Batch(plan, k)[i].to = Batch(plan, k)[j].to => i = j
         /\ Distinct([i \in 1..Len(Batch(plan, k)) |-> Batch(plan, k)[i].to])
         /\ \A i \in 1..Least(k * BatchSize, Len(plan)) :
               \/ /\ i \in 1..Least((k - 1) * BatchSize, Len(plan))
                  /\ plan[i].to \notin Recipients(Batch(plan, k))
               \/ \E j \in 1..Len(Batch(plan, k)) : Batch(plan, k)[j] = plan[i]
<1>1. PICK n \in Nat : n = Len(plan)
  OBVIOUS
<1>2. PICK lo \in Nat, ends \in Nat : lo = (k - 1) * BatchSize /\ ends = k * BatchSize
  BY BatchEdges
<1>3. PICK hi : hi = Least(ends, n)
  OBVIOUS
<1>4. /\ lo < n /\ hi \in lo+1..n /\ Least(lo, n) = lo
  <2>1. BatchSize \in Nat \ {0} /\ ends = lo + BatchSize
    BY <1>2, BatchEdges
  <2>2. QED
    BY <1>1, <1>2, <1>3, <2>1 DEF Least
<1>5. PICK batch : batch = Batch(plan, k)
  OBVIOUS
<1>6. batch \in Seq(Program!Entry) /\ Len(batch) = hi - lo
  <2>1. /\ batch \in Seq(Program!Entry)
        /\ Len(batch) = IF lo < hi THEN hi - lo ELSE 0
    BY <1>1, <1>2, <1>3, <1>5, BatchIs
  <2>2. QED
    BY <1>4, <2>1
<1>7. \A i \in 1..hi - lo : batch[i] = plan[lo + i]
  <2>1. \A i \in 1..Len(batch) : batch[i] = plan[(k - 1) * BatchSize + i]
    BY <1>5, BatchIs
  <2>2. QED
    BY <1>2, <1>6, <2>1
<1>8. \A i, j \in 1..n : plan[i].to = plan[j].to => i = j
  BY <1>1, RecipientsDiffer
<1>9. \A i, j \in 1..Len(batch) : batch[i].to = batch[j].to => i = j
  <2>1. SUFFICES ASSUME NEW i \in 1..hi - lo, NEW j \in 1..hi - lo, batch[i].to = batch[j].to
                 PROVE  i = j
    BY <1>6
  <2>2. lo + i \in 1..n /\ lo + j \in 1..n
    BY <1>2, <1>4
  <2>3. plan[lo + i].to = plan[lo + j].to
    BY <1>7, <2>1
  <2>4. lo + i = lo + j
    BY <1>8, <2>2, <2>3
  <2>5. QED
    BY <1>2, <2>4
<1>10. Distinct([i \in 1..Len(batch) |-> batch[i].to])
  <2>. DEFINE tos == [i \in 1..Len(batch) |-> batch[i].to]
  <2>1. Len(tos) = Len(batch)
    <3>1. tos \in [1..Len(batch) -> {batch[i].to : i \in 1..Len(batch)}] /\ Len(batch) \in Nat
      BY <1>6
    <3>. HIDE DEF tos
    <3>2. QED
      BY <3>1, FunctionIsSeq
  <2>2. \A i \in 1..Len(batch) : tos[i] = batch[i].to
    OBVIOUS
  <2>. HIDE DEF tos
  <2>3. Distinct(tos)
    BY <1>9, <2>1, <2>2 DEF Distinct
  <2>4. QED
    BY <2>3 DEF tos
<1>11. ASSUME NEW i \in 1..hi, i <= lo
       PROVE  i \in 1..Least(lo, n) /\ plan[i].to \notin Recipients(batch)
  <2>1. SUFFICES ASSUME NEW j \in 1..hi - lo, batch[j].to = plan[i].to PROVE FALSE
    BY <1>4, <1>6, <1>11 DEF Recipients
  <2>2. lo + j \in 1..n /\ i \in 1..n /\ lo + j # i
    BY <1>1, <1>2, <1>4, <1>11
  <2>3. plan[lo + j].to = plan[i].to
    BY <1>7, <2>1
  <2>4. QED
    BY <1>8, <2>2, <2>3
<1>12. ASSUME NEW i \in 1..hi, ~(i <= lo) PROVE \E j \in 1..Len(batch) : batch[j] = plan[i]
  <2>1. i - lo \in 1..hi - lo /\ i = lo + (i - lo)
    BY <1>2, <1>4, <1>12
  <2>2. batch[i - lo] = plan[i]
    BY <1>7, <2>1
  <2>3. QED
    BY <1>6, <2>1, <2>2
<1>13. QED
  BY <1>1, <1>2, <1>3, <1>5, <1>9, <1>10, <1>11, <1>12

(* When the balance covers a plan from a batch on, the batch pays its      *)
(* recipients what the plan says, and the rest stays covered.              *)
LEMMA BatchPaysPlan ==
  ASSUME NEW plan \in Seq(Program!Entry), NEW k \in Nat \ {0}, NEW balance \in Nat,
         (k - 1) * BatchSize < Len(plan), Distinct([i \in 1..Len(plan) |-> plan[i].to]),
         Total(Amounts(plan)) - SumOf(Amounts(plan))[Least((k - 1) * BatchSize, Len(plan))]
           <= balance
  PROVE  /\ Total(Amounts(plan)) - SumOf(Amounts(plan))[Least(k * BatchSize, Len(plan))]
              <= balance - Program!TotalMoved(balance, Batch(plan, k))
         /\ \A j \in 1..Len(Batch(plan, k)) :
               Program!Credit(balance, Batch(plan, k), Batch(plan, k)[j].to)
                 = Batch(plan, k)[j].amount
<1>1. PICK n \in Nat : n = Len(plan)
  OBVIOUS
<1>2. PICK lo \in Nat, ends \in Nat : lo = (k - 1) * BatchSize /\ ends = k * BatchSize
  BY BatchEdges
<1>3. PICK hi : hi = Least(ends, n)
  OBVIOUS
<1>4. /\ lo < n /\ hi \in lo+1..n /\ Least(lo, n) = lo
  <2>1. BatchSize \in Nat \ {0} /\ ends = lo + BatchSize
    BY <1>2, BatchEdges
  <2>2. QED
    BY <1>1, <1>2, <1>3, <2>1 DEF Least
<1>5. PICK batch, S : batch = Batch(plan, k) /\ S = SumOf(Amounts(plan))
  OBVIOUS
<1>6. batch \in Seq(Program!Entry)
  BY <1>5, BatchIs
<1>7. S[lo] \in Nat /\ S[hi] \in Nat /\ S[n] \in Nat /\ S[hi] <= S[n] /\ Total(Amounts(plan)) = S[n]
  <2>1. /\ Amounts(plan) \in Seq(Nat) /\ Len(Amounts(plan)) = n
        /\ IsPrefixSum(S, Amounts(plan))
    BY <1>1, <1>5, AmountsAre, SumOfUnfolds
  <2>2. lo \in 0..n /\ hi \in lo..n /\ hi \in 0..n /\ n \in hi..n
    BY <1>1, <1>2, <1>4
  <2>3. S[hi] \in Nat /\ S[n] \in Nat /\ S[hi] <= S[n]
    BY <2>1, <2>2, PrefixGrows
  <2>4. S[lo] \in Nat
    BY <2>1, <2>2, PrefixGrows
  <2>5. QED
    BY <1>5, <2>1, <2>3, <2>4 DEF Total
<1>8. Total(Amounts(batch)) = S[hi] - S[lo] /\ S[n] - S[lo] <= balance
  BY <1>1, <1>2, <1>3, <1>4, <1>5, <1>7, SliceSum
<1>9. Total(Amounts(batch)) <= balance
  BY <1>7, <1>8
<1>10. Program!TotalMoved(balance, batch) = S[hi] - S[lo]
  <2>1. Program!Moved(balance, batch)[Len(batch)] = SumOf(Amounts(batch))[Len(batch)]
    <3>1. Len(batch) \in 0..Len(batch)
      BY <1>6
    <3>2. QED
      BY <1>6, <1>9, <3>1, EnoughMovesAll
  <2>2. Len(Amounts(batch)) = Len(batch)
    BY <1>6, AmountsAre
  <2>3. QED
    BY <1>8, <2>1, <2>2 DEF Program!TotalMoved, Total
<1>11. S[n] - S[hi] <= balance - Program!TotalMoved(balance, batch)
  BY <1>7, <1>8, <1>10
<1>12. \A i, j \in 1..Len(batch) : batch[i].to = batch[j].to => i = j
  BY <1>5, BatchSplits
<1>13. \A j \in 1..Len(batch) : Program!Credit(balance, batch, batch[j].to) = batch[j].amount
  BY <1>6, <1>9, <1>12, EnoughCreditsAll
<1>14. QED
  BY <1>1, <1>2, <1>3, <1>5, <1>7, <1>11, <1>13

-----------------------------------------------------------------------------
(***************************************************************************)
(* The ledgers of the chain and of MongoDB in step with the plan           *)
(***************************************************************************)

(* What InStep says of a session with these fields.                        *)
Ledgers(at, sees, plan, k, recovered) ==
    /\ \A w \in Wallets \ marked :
          paid[w] # 0 => /\ at \in {"loadForm", "validate", "mark"}
                         /\ w \in Recipients(Batch(plan, k))
    /\ at \in {"send", "sent"} =>
          /\ PaidUpTo(plan, (k - 1) * BatchSize) /\ RecordedUpTo(plan, (k - 1) * BatchSize)
          /\ Covered(plan, (k - 1) * BatchSize)
    /\ at \in {"loadForm", "validate", "mark"} =>
          /\ PaidUpTo(plan, k * BatchSize) /\ RecordedUpTo(plan, (k - 1) * BatchSize)
          /\ Covered(plan, k * BatchSize)
    /\ at \in {"count", "losers", "recount", "flag"} =>
          /\ PaidUpTo(plan, k * BatchSize) /\ RecordedUpTo(plan, k * BatchSize)
          /\ Covered(plan, k * BatchSize)
    /\ at \in Recovering => recovered
    /\ at \in Sweeping \/ (at = "idle" /\ sees) =>
          recovered \/ (PaidUpTo(plan, Len(plan)) /\ RecordedUpTo(plan, Len(plan)))

(* The same, of a session.                                                 *)
Booked(s) == Ledgers(s.at, s.sees, s.plan, s.batch, s.recovered)

(* InStep, session by session.                                             *)
LEMMA InStepIs ==
  InStep <=> InSequence /\ \A t \in Tabs : Booked(session[t])
  BY DEF InStep, Booked, Ledgers, UnpaidUnlessLanded, CurrentBatch

(* What InStep gives for a session.                                        *)
LEMMA InStepGives ==
  ASSUME InStep, NEW t \in Tabs
  PROVE  /\ InSequence /\ Fresh /\ Consistent /\ ChainConsistent /\ DbConsistent
         /\ session \in [Tabs -> Session]
         /\ Fits(session[t], Answered) /\ FreshSession(session[t]) /\ Sequenced(session[t])
         /\ Booked(session[t])
  BY InStepIs, InSequenceIs, FreshIs DEF Consistent

(* The session that moves is in step, and it is the only one.              *)
LEMMA BookedNow ==
  ASSUME OneTab, NEW t \in Tabs,
         NEW at, NEW sees \in BOOLEAN, NEW eligible, NEW plan, NEW k, NEW recovered,
         Now(t, at, sees, eligible, plan, k, recovered),
         Ledgers(at, sees, plan, k, recovered)'
  PROVE  \A u \in Tabs : Booked(session[u])'
<1>1. SUFFICES Booked(session[t])'
  BY DEF OneTab
<1>2. /\ session'[t].at = at /\ session'[t].sees = sees /\ session'[t].recovered = recovered
      /\ session'[t].plan = plan /\ session'[t].batch = k
  BY DEF Now, IsSession
<1>3. QED
  BY <1>2 DEF Booked

(* As long as nobody is paid or recorded, the ledgers stay as they are.    *)
LEMMA LedgersStay ==
  ASSUME NEW at, NEW label, NEW before, NEW sees, NEW plan, NEW k, NEW recovered,
         Ledgers(at, before, plan, k, recovered),
         UNCHANGED <<paid, marked, credited>>, vault' = vault \/ label = "confirmSweep",
         label \in {"send", "sent"} => at \in {"send", "sent"},
         at \in {"loadForm", "validate", "mark"} <=> label \in {"loadForm", "validate", "mark"},
         label \in {"count", "losers", "recount", "flag"} =>
            at \in {"count", "losers", "recount", "flag"},
         label \in Recovering => at \in Recovering,
         label \in Sweeping \/ (label = "idle" /\ sees) =>
            at \in Sweeping \cup Recovering \/ (at = "idle" /\ before)
  PROVE  Ledgers(label, sees, plan, k, recovered)'
<1>1. \A w \in Wallets \ marked' :
         paid'[w] # 0 => /\ label \in {"loadForm", "validate", "mark"}
                         /\ w \in Recipients(Batch(plan, k))
  BY DEF Ledgers
<1>2. ASSUME NEW n
      PROVE  /\ PaidUpTo(plan, n) => PaidUpTo(plan, n)'
             /\ RecordedUpTo(plan, n) => RecordedUpTo(plan, n)'
             /\ vault' = vault => (Covered(plan, n) => Covered(plan, n)')
  BY DEF PaidUpTo, RecordedUpTo, Covered
<1>3. label \in {"send", "sent", "loadForm", "validate", "mark", "count", "losers", "recount", "flag"}
         => vault' = vault
  OBVIOUS
<1>4. label \in {"send", "sent"} =>
         /\ PaidUpTo(plan, (k - 1) * BatchSize)' /\ RecordedUpTo(plan, (k - 1) * BatchSize)'
         /\ Covered(plan, (k - 1) * BatchSize)'
  <2>1. SUFFICES ASSUME label \in {"send", "sent"}
                 PROVE  /\ PaidUpTo(plan, (k - 1) * BatchSize)'
                        /\ RecordedUpTo(plan, (k - 1) * BatchSize)'
                        /\ Covered(plan, (k - 1) * BatchSize)'
    OBVIOUS
  <2>2. /\ PaidUpTo(plan, (k - 1) * BatchSize) /\ RecordedUpTo(plan, (k - 1) * BatchSize)
        /\ Covered(plan, (k - 1) * BatchSize)
    BY <2>1 DEF Ledgers
  <2>3. QED
    BY <1>2, <1>3, <2>1, <2>2
<1>5. label \in {"loadForm", "validate", "mark"} =>
         /\ PaidUpTo(plan, k * BatchSize)' /\ RecordedUpTo(plan, (k - 1) * BatchSize)'
         /\ Covered(plan, k * BatchSize)'
  <2>1. SUFFICES ASSUME label \in {"loadForm", "validate", "mark"}
                 PROVE  /\ PaidUpTo(plan, k * BatchSize)'
                        /\ RecordedUpTo(plan, (k - 1) * BatchSize)'
                        /\ Covered(plan, k * BatchSize)'
    OBVIOUS
  <2>2. /\ PaidUpTo(plan, k * BatchSize) /\ RecordedUpTo(plan, (k - 1) * BatchSize)
        /\ Covered(plan, k * BatchSize)
    BY <2>1 DEF Ledgers
  <2>3. QED
    BY <1>2, <1>3, <2>1, <2>2
<1>6. label \in {"count", "losers", "recount", "flag"} =>
         /\ PaidUpTo(plan, k * BatchSize)' /\ RecordedUpTo(plan, k * BatchSize)'
         /\ Covered(plan, k * BatchSize)'
  <2>1. SUFFICES ASSUME label \in {"count", "losers", "recount", "flag"}
                 PROVE  /\ PaidUpTo(plan, k * BatchSize)'
                        /\ RecordedUpTo(plan, k * BatchSize)'
                        /\ Covered(plan, k * BatchSize)'
    OBVIOUS
  <2>2. /\ PaidUpTo(plan, k * BatchSize) /\ RecordedUpTo(plan, k * BatchSize)
        /\ Covered(plan, k * BatchSize)
    BY <2>1 DEF Ledgers
  <2>3. QED
    BY <1>2, <1>3, <2>1, <2>2
<1>7. label \in Recovering => recovered
  BY DEF Ledgers
<1>8. label \in Sweeping \/ (label = "idle" /\ sees) =>
         recovered \/ (PaidUpTo(plan, Len(plan))' /\ RecordedUpTo(plan, Len(plan))')
  <2>1. SUFFICES ASSUME label \in Sweeping \/ (label = "idle" /\ sees)
                 PROVE  recovered \/ (PaidUpTo(plan, Len(plan))' /\ RecordedUpTo(plan, Len(plan))')
    OBVIOUS
  <2>2. recovered \/ (PaidUpTo(plan, Len(plan)) /\ RecordedUpTo(plan, Len(plan)))
    BY <2>1 DEF Ledgers
  <2>3. QED
    BY <1>2, <2>2
<1>9. QED
  BY <1>1, <1>4, <1>5, <1>6, <1>7, <1>8 DEF Ledgers

(* A step to another label that neither pays nor records.                  *)
LEMMA BookedGoto ==
  ASSUME OneTab, InStep, NEW t \in Tabs, NEW label \in Labels, Goto(t, label),
         UNCHANGED <<paid, marked, credited>>, vault' = vault \/ label = "confirmSweep",
         label \in {"send", "sent"} => session[t].at \in {"send", "sent"},
         session[t].at \in {"loadForm", "validate", "mark"}
            <=> label \in {"loadForm", "validate", "mark"},
         label \in {"count", "losers", "recount", "flag"} =>
            session[t].at \in {"count", "losers", "recount", "flag"},
         label \in Recovering => session[t].at \in Recovering,
         label \in Sweeping => session[t].at \in Sweeping \cup Recovering,
         label = "idle" => session[t].at # "idle"
  PROVE  \A u \in Tabs : Booked(session[u])'
<1>1. /\ session \in [Tabs -> Session] /\ Sequenced(session[t]) /\ Booked(session[t])
  BY InStepGives
<1>2. PICK at, eligible, plan, k, recovered :
         /\ at = session[t].at /\ eligible = session[t].eligible
         /\ plan = session[t].plan /\ k = session[t].batch /\ recovered = session[t].recovered
  OBVIOUS
<1>3. PICK sees \in BOOLEAN : sees = session[t].sees
  BY <1>1, SessionFields
<1>4. Now(t, label, sees, eligible, plan, k, recovered)
  BY <1>1, <1>2, <1>3, GotoNow
<1>5. Ledgers(at, sees, plan, k, recovered)
  BY <1>1, <1>2, <1>3 DEF Booked
<1>6. label = "idle" => ~sees
  BY <1>1, <1>2, <1>3 DEF Sequenced
<1>7. /\ label \in {"send", "sent"} => at \in {"send", "sent"}
      /\ at \in {"loadForm", "validate", "mark"} <=> label \in {"loadForm", "validate", "mark"}
      /\ label \in {"count", "losers", "recount", "flag"} =>
            at \in {"count", "losers", "recount", "flag"}
      /\ label \in Recovering => at \in Recovering
      /\ label \in Sweeping \/ (label = "idle" /\ sees) =>
            at \in Sweeping \cup Recovering \/ (at = "idle" /\ sees)
  BY <1>2, <1>6
<1>8. Ledgers(label, sees, plan, k, recovered)'
  BY <1>5, <1>7, LedgersStay
<1>9. QED
  BY <1>3, <1>4, <1>8, BookedNow

(* The wallets of a plan are wallets, whether or not they are marked.      *)
LEMMA PlanWallets ==
  ASSUME InStep, NEW t \in Tabs
  PROVE  /\ Recipients(session[t].plan) \subseteq Answered
         /\ Answered \subseteq Wallets /\ marked \subseteq Answered
         /\ paid \in [Program!Payees -> Nat] /\ vault \in Nat /\ credited \in [Wallets -> Nat]
         /\ Wallets \subseteq Program!Payees
<1>1. /\ ChainConsistent /\ DbConsistent /\ Sequenced(session[t])
  BY InStepGives
<1>2. QED
  BY <1>1, MarkedAreWallets DEF ChainConsistent, DbConsistent, Sequenced, Program!TypeOK,
     Program!Solvency, Program!Payees

(* The batch of a session that is about to be sent, or has landed.         *)
LEMMA PlanOf ==
  ASSUME InStep, NEW t \in Tabs, NEW plan, NEW k,
         plan = session[t].plan, k = session[t].batch
  PROVE  /\ plan \in Seq(Program!Entry) /\ k \in Nat \ {0}
         /\ Distinct([i \in 1..Len(plan) |-> plan[i].to])
         /\ session[t].at \in Planned => (k - 1) * BatchSize < Len(plan)
<1>1. /\ Fits(session[t], Answered) /\ session \in [Tabs -> Session]
  BY InStepGives
<1>2. plan \in Seq(Program!Entry) /\ k \in Nat \ {0}
  BY <1>1, CurrentBatchType
<1>3. /\ Distinct([i \in 1..Len(plan) |-> plan[i].to])
      /\ k = 1 \/ (k - 1) * BatchSize < Len(plan)
      /\ session[t].at \in Planned => plan # <<>>
  BY <1>1 DEF Fits
<1>4. session[t].at \in Planned => (k - 1) * BatchSize < Len(plan)
  <2>1. SUFFICES ASSUME plan # <<>>, k = 1 PROVE (k - 1) * BatchSize < Len(plan)
    BY <1>3
  <2>2. Len(plan) \in Nat \ {0}
    BY <1>2, <2>1, EmptySeq, LenProperties
  <2>3. (k - 1) * BatchSize = 0
    BY <2>1, BatchEdges
  <2>4. QED
    BY <2>2, <2>3
<1>5. QED
  BY <1>2, <1>3, <1>4

(* The transaction of a batch lands: it pays what the plan says.           *)
LEMMA BookedLand ==
  ASSUME OneTab, InStep, NEW t \in Tabs, LandBatch(t)
  PROVE  \A u \in Tabs : Booked(session[u])'
<1>1. PICK at, eligible, plan, k, recovered :
         /\ at = session[t].at /\ eligible = session[t].eligible
         /\ plan = session[t].plan /\ k = session[t].batch /\ recovered = session[t].recovered
  OBVIOUS
<1>2. /\ session \in [Tabs -> Session] /\ Sequenced(session[t]) /\ Booked(session[t])
      /\ FreshSession(session[t]) /\ ChainConsistent
  BY InStepGives
<1>3. PICK sees \in BOOLEAN : sees = session[t].sees
  BY <1>2, SessionFields
<1>4. at = "sent" /\ Goto(t, "loadForm") /\ UNCHANGED <<marked, credited>>
  BY <1>1 DEF LandBatch, db, ledger
<1>5. PICK batch \in Seq(Program!Entry) : batch = CurrentBatch(t) /\ batch = Batch(plan, k)
  BY <1>1, <1>2, CurrentBatchType DEF CurrentBatch
<1>6. Pays(t)
  <2>1. Accepted(CurrentBatch(t)) /\ session[t].at = "sent"
    BY <1>1, <1>2, <1>4 DEF Sequenced, CurrentBatch
  <2>2. CASE currency = "SOL" /\ Program!DistributeRewards(Creator, CurrentBatch(t))
    BY <2>1, <2>2 DEF Pays, Program!DistributeRewards, Program!LamportVault
  <2>3. CASE currency = "SPL" /\ Program!DistributeRewardsSpl(Creator, CurrentBatch(t))
    BY <2>1, <2>3 DEF Pays, Program!DistributeRewardsSpl
  <2>4. QED
    BY <2>1, <2>2, <2>3 DEF LandBatch, DistributeTx, DistributeSplTx
<1>7. /\ vault' = vault - Program!TotalMoved(vault, batch)
      /\ paid' = [p \in Program!Payees |-> paid[p] + Program!Credit(vault, batch, p)]
  BY <1>2, <1>5, <1>6, PaysEffect
<1>8. /\ Recipients(plan) \subseteq Wallets /\ paid \in [Program!Payees -> Nat] /\ vault \in Nat
      /\ Wallets \subseteq Program!Payees
  BY <1>1, PlanWallets
<1>9. /\ plan \in Seq(Program!Entry) /\ k \in Nat \ {0}
      /\ Distinct([i \in 1..Len(plan) |-> plan[i].to])
      /\ (k - 1) * BatchSize < Len(plan)
  BY <1>1, <1>4, PlanOf DEF Planned
<1>10. Ledgers(at, sees, plan, k, recovered)
  BY <1>1, <1>2, <1>3 DEF Booked
<1>11. /\ PaidUpTo(plan, (k - 1) * BatchSize) /\ RecordedUpTo(plan, (k - 1) * BatchSize)
       /\ Covered(plan, (k - 1) * BatchSize)
       /\ \A w \in Wallets \ marked : paid[w] = 0
  BY <1>4, <1>10 DEF Ledgers
<1>12. /\ Total(Amounts(plan)) - SumOf(Amounts(plan))[Least(k * BatchSize, Len(plan))]
            <= vault - Program!TotalMoved(vault, batch)
       /\ \A j \in 1..Len(batch) : Program!Credit(vault, batch, batch[j].to) = batch[j].amount
  BY <1>5, <1>8, <1>9, <1>11, BatchPaysPlan DEF Covered
<1>13. Covered(plan, k * BatchSize)'
  BY <1>7, <1>12 DEF Covered
<1>14. \A w \in Wallets : paid'[w] = paid[w] + Program!Credit(vault, batch, w)
  BY <1>7, <1>8
<1>15. \A w \in Wallets \ Recipients(batch) : paid'[w] = paid[w]
  <2>1. SUFFICES ASSUME NEW w \in Wallets \ Recipients(batch) PROVE paid'[w] = paid[w]
    OBVIOUS
  <2>2. Program!Credit(vault, batch, w) = 0
    BY <1>5, <1>8, NotInBatch
  <2>3. paid'[w] = paid[w] + 0 /\ paid[w] \in Nat
    BY <1>8, <1>14, <2>2
  <2>4. QED
    BY <2>3
<1>16. \A j \in 1..Len(batch) : batch[j].to \in Wallets \ marked
  <2>1. Recipients(batch) \subseteq Owed(plan, (k - 1) * BatchSize)
        /\ Recipients(batch) \subseteq Recipients(plan)
    BY <1>5, <1>9, BatchAndRest
  <2>2. Owed(plan, (k - 1) * BatchSize) \cap marked = {}
    BY <1>1, <1>2, <1>4 DEF FreshSession
  <2>3. QED
    BY <1>8, <2>1, <2>2 DEF Recipients
<1>17. \A j \in 1..Len(batch) : paid'[batch[j].to] = batch[j].amount
  <2>1. SUFFICES ASSUME NEW j \in 1..Len(batch) PROVE paid'[batch[j].to] = batch[j].amount
    OBVIOUS
  <2>2. PICK w \in Wallets \ marked : w = batch[j].to
    BY <1>16
  <2>3. paid'[w] = 0 + batch[j].amount
    BY <1>11, <1>12, <1>14, <2>2
  <2>4. batch[j].amount \in Nat
    BY <1>5, ElementOfSeq, EntryFields
  <2>5. QED
    BY <2>2, <2>3, <2>4
<1>18. PaidUpTo(plan, k * BatchSize)'
  <2>1. SUFFICES ASSUME NEW i \in 1..Least(k * BatchSize, Len(plan))
                 PROVE  paid'[plan[i].to] = plan[i].amount
    BY DEF PaidUpTo
  <2>2. CASE /\ i \in 1..Least((k - 1) * BatchSize, Len(plan))
             /\ plan[i].to \notin Recipients(batch)
    <3>1. paid[plan[i].to] = plan[i].amount
      BY <1>11, <2>2 DEF PaidUpTo
    <3>2. plan[i].to \in Wallets
      <4>1. Least(k * BatchSize, Len(plan)) \in Nat /\ Least(k * BatchSize, Len(plan)) <= Len(plan)
        BY <1>9, BatchIs
      <4>2. i \in 1..Len(plan)
        BY <1>9, <4>1
      <4>3. QED
        BY <1>8, <4>2 DEF Recipients
    <3>3. QED
      BY <1>15, <2>2, <3>1, <3>2
  <2>3. CASE \E j \in 1..Len(batch) : batch[j] = plan[i]
    BY <1>17, <2>3
  <2>4. \A e \in 1..Least(k * BatchSize, Len(plan)) :
           \/ /\ e \in 1..Least((k - 1) * BatchSize, Len(plan))
              /\ plan[e].to \notin Recipients(Batch(plan, k))
           \/ \E j \in 1..Len(Batch(plan, k)) : Batch(plan, k)[j] = plan[e]
    BY <1>9, BatchSplits
  <2>5. QED
    BY <1>5, <2>2, <2>3, <2>4
<1>19. RecordedUpTo(plan, (k - 1) * BatchSize)'
  BY <1>4, <1>11 DEF RecordedUpTo
<1>20. ASSUME NEW w \in Wallets \ marked', paid'[w] # 0 PROVE w \in Recipients(batch)
  BY <1>4, <1>11, <1>15, <1>20
<1>21. PICK label : label = "loadForm"
  OBVIOUS
<1>22. Ledgers(label, sees, plan, k, recovered)'
  BY <1>5, <1>13, <1>18, <1>19, <1>20, <1>21 DEF Ledgers, Recovering, Sweeping
<1>23. Now(t, label, sees, eligible, plan, k, recovered)
  BY <1>1, <1>2, <1>3, <1>4, <1>21, GotoNow DEF Labels
<1>24. QED
  BY <1>22, <1>23, BookedNow

(* The confirmation of a batch records what it has paid.                   *)
LEMMA BookedMark ==
  ASSUME OneTab, InStep, NEW t \in Tabs, MarkBatch(t)
  PROVE  \A u \in Tabs : Booked(session[u])'
<1>1. PICK at, eligible, plan, k, recovered :
         /\ at = session[t].at /\ eligible = session[t].eligible
         /\ plan = session[t].plan /\ k = session[t].batch /\ recovered = session[t].recovered
  OBVIOUS
<1>2. /\ session \in [Tabs -> Session] /\ Booked(session[t])
  BY InStepGives
<1>3. PICK sees \in BOOLEAN : sees = session[t].sees
  BY <1>2, SessionFields
<1>4. at = "mark" /\ Goto(t, "count") /\ UNCHANGED <<paid, vault>>
  BY <1>1 DEF MarkBatch, chain
<1>5. PICK batch \in Seq(Program!Entry) : batch = CurrentBatch(t) /\ batch = Batch(plan, k)
  BY <1>1, <1>2, CurrentBatchType DEF CurrentBatch
<1>6. Mark(batch)
  BY <1>5 DEF MarkBatch
<1>7. /\ Recipients(plan) \subseteq Answered /\ Answered \subseteq Wallets
      /\ marked \subseteq Answered /\ credited \in [Wallets -> Nat]
  BY <1>1, PlanWallets
<1>8. /\ plan \in Seq(Program!Entry) /\ k \in Nat \ {0}
      /\ Distinct([i \in 1..Len(plan) |-> plan[i].to])
      /\ (k - 1) * BatchSize < Len(plan)
  BY <1>1, <1>4, PlanOf DEF Planned, Landed
<1>9. Recipients(batch) \subseteq Answered
  BY <1>5, <1>7, <1>8, BatchAndRest
<1>10. Distinct([i \in 1..Len(batch) |-> batch[i].to])
  BY <1>5, <1>8, BatchSplits
<1>11. /\ marked' = marked \cup Recipients(batch)
       /\ \A w \in Wallets \ Recipients(batch) : credited'[w] = credited[w]
       /\ \A j \in 1..Len(batch) : credited'[batch[j].to] = batch[j].amount
  <2>1. /\ marked' = marked \cup (Recipients(batch) \cap Answered)
        /\ \A w \in Wallets \ (Recipients(batch) \cap Answered) : credited'[w] = credited[w]
        /\ \A j \in 1..Len(batch) :
              batch[j].to \in Answered \cap Wallets => credited'[batch[j].to] = batch[j].amount
    BY <1>6, <1>7, <1>10, MarkEffect
  <2>2. \A j \in 1..Len(batch) : batch[j].to \in Answered \cap Wallets
    BY <1>7, <1>9 DEF Recipients
  <2>3. QED
    BY <1>9, <2>1, <2>2
<1>12. Ledgers(at, sees, plan, k, recovered)
  BY <1>1, <1>2, <1>3 DEF Booked
<1>13. /\ PaidUpTo(plan, k * BatchSize) /\ RecordedUpTo(plan, (k - 1) * BatchSize)
       /\ Covered(plan, k * BatchSize)
       /\ \A w \in Wallets \ marked : paid[w] # 0 => w \in Recipients(batch)
  BY <1>4, <1>5, <1>12 DEF Ledgers
<1>14. PaidUpTo(plan, k * BatchSize)' /\ Covered(plan, k * BatchSize)'
  BY <1>4, <1>13 DEF PaidUpTo, Covered
<1>15. RecordedUpTo(plan, k * BatchSize)'
  <2>1. SUFFICES ASSUME NEW i \in 1..Least(k * BatchSize, Len(plan))
                 PROVE  plan[i].to \in marked' /\ credited'[plan[i].to] = plan[i].amount
    BY DEF RecordedUpTo
  <2>2. CASE /\ i \in 1..Least((k - 1) * BatchSize, Len(plan))
             /\ plan[i].to \notin Recipients(batch)
    <3>1. plan[i].to \in marked /\ credited[plan[i].to] = plan[i].amount
      BY <1>13, <2>2 DEF RecordedUpTo
    <3>2. QED
      BY <1>7, <1>11, <2>2, <3>1
  <2>3. CASE \E j \in 1..Len(batch) : batch[j] = plan[i]
    <3>1. PICK j \in 1..Len(batch) : batch[j] = plan[i]
      BY <2>3
    <3>2. batch[j].to \in Recipients(batch)
      BY DEF Recipients
    <3>3. QED
      BY <1>11, <3>1, <3>2
  <2>4. \A e \in 1..Least(k * BatchSize, Len(plan)) :
           \/ /\ e \in 1..Least((k - 1) * BatchSize, Len(plan))
              /\ plan[e].to \notin Recipients(Batch(plan, k))
           \/ \E j \in 1..Len(Batch(plan, k)) : Batch(plan, k)[j] = plan[e]
    BY <1>8, BatchSplits
  <2>5. QED
    BY <1>5, <2>2, <2>3, <2>4
<1>16. \A w \in Wallets \ marked' : paid'[w] = 0
  BY <1>4, <1>11, <1>13
<1>17. PICK label : label = "count"
  OBVIOUS
<1>18. Ledgers(label, sees, plan, k, recovered)'
  BY <1>14, <1>15, <1>16, <1>17 DEF Ledgers, Recovering, Sweeping
<1>19. Now(t, label, sees, eligible, plan, k, recovered)
  BY <1>1, <1>2, <1>3, <1>4, <1>17, GotoNow DEF Labels
<1>20. QED
  BY <1>18, <1>19, BookedNow

(* What is recorded of a plan stays recorded when the losers are marked,   *)
(* and nobody is left who has been paid without a record.                  *)
LEMMA BookedLosers ==
  ASSUME OneTab, InStep, NEW t \in Tabs, MarkRemaining(t)
  PROVE  \A u \in Tabs : Booked(session[u])'
<1>1. PICK at, eligible, plan, k, recovered :
         /\ at = session[t].at /\ eligible = session[t].eligible
         /\ plan = session[t].plan /\ k = session[t].batch /\ recovered = session[t].recovered
  OBVIOUS
<1>2. /\ session \in [Tabs -> Session] /\ Booked(session[t])
  BY InStepGives
<1>3. PICK sees \in BOOLEAN : sees = session[t].sees
  BY <1>2, SessionFields
<1>4. at = "losers" /\ Goto(t, "recount") /\ UNCHANGED <<paid, vault>> /\ MarkLosers
  BY <1>1 DEF MarkRemaining, chain
<1>5. /\ Answered \subseteq Wallets /\ marked \subseteq Answered /\ credited \in [Wallets -> Nat]
  BY PlanWallets
<1>6. marked' = Answered /\ \A w \in Wallets \cap marked : credited'[w] = credited[w]
  BY <1>4, <1>5, MarkLosersEffect
<1>7. Ledgers(at, sees, plan, k, recovered)
  BY <1>1, <1>2, <1>3 DEF Booked
<1>8. /\ PaidUpTo(plan, k * BatchSize) /\ RecordedUpTo(plan, k * BatchSize)
      /\ Covered(plan, k * BatchSize)
      /\ \A w \in Wallets \ marked : paid[w] = 0
  BY <1>4, <1>7 DEF Ledgers
<1>9. PaidUpTo(plan, k * BatchSize)' /\ Covered(plan, k * BatchSize)'
  BY <1>4, <1>8 DEF PaidUpTo, Covered
<1>10. RecordedUpTo(plan, k * BatchSize)'
  <2>1. SUFFICES ASSUME NEW i \in 1..Least(k * BatchSize, Len(plan))
                 PROVE  plan[i].to \in marked' /\ credited'[plan[i].to] = plan[i].amount
    BY DEF RecordedUpTo
  <2>2. plan[i].to \in marked /\ credited[plan[i].to] = plan[i].amount
    BY <1>8 DEF RecordedUpTo
  <2>3. QED
    BY <1>5, <1>6, <2>2
<1>11. \A w \in Wallets \ marked' : paid'[w] = 0
  BY <1>4, <1>5, <1>6, <1>8
<1>12. PICK label : label = "recount"
  OBVIOUS
<1>13. Ledgers(label, sees, plan, k, recovered)'
  BY <1>9, <1>10, <1>11, <1>12 DEF Ledgers, Recovering, Sweeping
<1>14. Now(t, label, sees, eligible, plan, k, recovered)
  BY <1>1, <1>2, <1>3, <1>4, <1>12, GotoNow DEF Labels
<1>15. QED
  BY <1>13, <1>14, BookedNow

(* The recovery records a distribution it has not made itself.             *)
LEMMA BookedRecover ==
  ASSUME OneTab, InStep, NEW t \in Tabs, RecoverMark(t) \/ RecoverLosers(t)
  PROVE  \A u \in Tabs : Booked(session[u])'
<1>1. PICK at, eligible, plan, k, recovered :
         /\ at = session[t].at /\ eligible = session[t].eligible
         /\ plan = session[t].plan /\ k = session[t].batch /\ recovered = session[t].recovered
  OBVIOUS
<1>2. /\ session \in [Tabs -> Session] /\ Booked(session[t])
  BY InStepGives
<1>3. PICK sees \in BOOLEAN : sees = session[t].sees
  BY <1>2, SessionFields
<1>4. PICK label \in {"recoverLosers", "recoverFlag"} :
         /\ at \in {"recoverMark", "recoverLosers"} /\ Goto(t, label) /\ UNCHANGED <<paid, vault>>
  BY <1>1 DEF RecoverMark, RecoverLosers, chain
<1>5. plan \in Seq(Program!Entry)
  BY <1>1, PlanOf
<1>6. /\ marked \subseteq Answered /\ credited \in [Wallets -> Nat] /\ Answered \subseteq Wallets
  BY PlanWallets
<1>7. marked \subseteq marked'
  <2>1. CASE RecoverMark(t)
    <3>1. Mark(plan)
      BY <1>1, <2>1 DEF RecoverMark
    <3>2. QED
      BY <3>1 DEF Mark
  <2>2. CASE RecoverLosers(t)
    <3>1. MarkLosers
      BY <2>2 DEF RecoverLosers
    <3>2. QED
      BY <1>6, <3>1 DEF MarkLosers
  <2>3. QED
    BY <2>1, <2>2
<1>8. Ledgers(at, sees, plan, k, recovered)
  BY <1>1, <1>2, <1>3 DEF Booked
<1>9. recovered /\ \A w \in Wallets \ marked : paid[w] = 0
  BY <1>4, <1>8 DEF Ledgers, Recovering
<1>10. \A w \in Wallets \ marked' : paid'[w] = 0
  BY <1>4, <1>7, <1>9
<1>11. Ledgers(label, sees, plan, k, recovered)'
  BY <1>4, <1>9, <1>10 DEF Ledgers, Recovering, Sweeping
<1>12. Now(t, label, sees, eligible, plan, k, recovered)
  <2>1. label \in Labels
    BY DEF Labels
  <2>2. QED
    BY <1>1, <1>2, <1>3, <1>4, <2>1, GotoNow
<1>13. QED
  BY <1>11, <1>12, BookedNow

(* A new plan is of what the vault holds.                                  *)
LEMMA BookedBalance ==
  ASSUME OneTab, RewardType = "weighted", InStep, NEW t \in Tabs, ReadBalance(t)
  PROVE  \A u \in Tabs : Booked(session[u])'
<1>1. /\ session \in [Tabs -> Session] /\ Booked(session[t]) /\ Fits(session[t], Answered)
      /\ ChainConsistent /\ DbConsistent /\ Sequenced(session[t])
  BY InStepGives
<1>2. PICK sees \in BOOLEAN : sees = session[t].sees
  BY <1>1, SessionFields
<1>3. session[t].at = "balance" /\ UNCHANGED <<paid, marked, credited, vault>>
  BY DEF ReadBalance, chain, db, ledger
<1>4. vault \in Nat
  BY <1>1 DEF ChainConsistent, Program!TypeOK, Program!Solvency
<1>5. CASE Goto(t, "idle")
  BY <1>3, <1>5, BookedGoto DEF Labels, Recovering, Sweeping
<1>6. CASE ~Goto(t, "idle")
  <2>1. PICK units, nb, r :
           /\ units = (IF EscrowBalance = 0 THEN Pool ELSE Least(EscrowBalance, Pool))
           /\ nb = (IF EscrowBalance = 0 THEN "recoverMark" ELSE "send")
           /\ r = (EscrowBalance = 0)
    OBVIOUS
  <2>2. \E plan \in Plans(session[t].eligible, units) :
           session' = [session EXCEPT ![t].at = nb, ![t].eligible = <<>>, ![t].plan = plan,
                                      ![t].batch = 1, ![t].recovered = r]
    BY <1>6, <2>1, Zenon DEF ReadBalance
  <2>3. PICK plan \in Plans(session[t].eligible, units) :
           session' = [session EXCEPT ![t].at = nb, ![t].eligible = <<>>, ![t].plan = plan,
                                      ![t].batch = 1, ![t].recovered = r]
    BY <2>2
  <2>4. units \in Nat /\ (nb = "send" => units <= vault)
    BY <1>4, <2>1, ConstantsAssumption DEF EscrowBalance, Least
  <2>5. PICK wallets \in Seq(Wallets) :
           wallets = session[t].eligible /\ wallets # <<>> /\ Distinct(wallets)
    <3>1. session[t].eligible \in Seq(Wallets)
      BY <1>1, SessionFields
    <3>2. QED
      BY <1>1, <1>3, <3>1 DEF Fits
  <2>6. plan \in Seq(Program!Entry) /\ Total(Amounts(plan)) = units
    <3>1. plan = WeightedPlan(wallets, units)
      BY <2>3, <2>5 DEF Plans
    <3>2. IsPlan(plan, wallets) /\ Total(Amounts(plan)) = units
      BY <2>4, <2>5, <3>1, WeightedPlanIs
    <3>3. QED
      BY <3>2 DEF IsPlan
  <2>7. Least(0, Len(plan)) = 0 /\ SumOf(Amounts(plan))[0] = 0
    <3>1. IsPrefixSum(SumOf(Amounts(plan)), Amounts(plan))
      BY <2>6, AmountsAre, SumOfUnfolds
    <3>2. Len(plan) \in Nat
      BY <2>6
    <3>3. QED
      BY <3>1, <3>2 DEF IsPrefixSum, Least
  <2>8. PICK none, first : none = <<>> /\ first = 1 /\ (first - 1) * BatchSize = 0
    BY BatchEdges
  <2>9. PaidUpTo(plan, (first - 1) * BatchSize)' /\ RecordedUpTo(plan, (first - 1) * BatchSize)'
    BY <2>7, <2>8 DEF PaidUpTo, RecordedUpTo
  <2>10. nb = "send" => Covered(plan, (first - 1) * BatchSize)'
    <3>1. SUFFICES ASSUME nb = "send" PROVE Covered(plan, 0)'
      BY <2>8
    <3>2. Total(Amounts(plan)) - SumOf(Amounts(plan))[Least(0, Len(plan))] <= vault'
      BY <1>3, <1>4, <2>4, <2>6, <2>7, <3>1
    <3>3. QED
      BY <3>2 DEF Covered
  <2>11. \A w \in Wallets \ marked' : paid'[w] = 0
    BY <1>1, <1>3 DEF Booked, Ledgers
  <2>12. nb \in {"send", "recoverMark"} /\ nb \in Labels /\ r \in BOOLEAN
         /\ (nb = "recoverMark" => r)
    BY <2>1 DEF Labels
  <2>13. Ledgers(nb, sees, plan, first, r)'
    BY <2>9, <2>10, <2>11, <2>12 DEF Ledgers, Recovering, Sweeping
  <2>14. Now(t, nb, sees, none, plan, first, r)
    BY <1>1, <1>2, <2>3, <2>6, <2>8, <2>12, ReadBalanceNow
  <2>15. QED
    BY <2>13, <2>14, BookedNow
<1>7. QED
  BY <1>5, <1>6

(* The next batch begins where the last one ended; the last batch ends     *)
(* with the plan.                                                          *)
LEMMA BookedNextBatch ==
  ASSUME OneTab, InStep, NEW t \in Tabs, session[t].at \in {"recount", "flag"}, NextBatch(t),
         UNCHANGED <<paid, marked, credited, vault>>
  PROVE  \A u \in Tabs : Booked(session[u])'
<1>1. /\ session \in [Tabs -> Session] /\ Booked(session[t])
  BY InStepGives
<1>2. PICK sees \in BOOLEAN : sees = session[t].sees
  BY <1>1, SessionFields
<1>3. PICK at, eligible, plan, recovered :
         /\ at = session[t].at /\ eligible = session[t].eligible
         /\ plan = session[t].plan /\ recovered = session[t].recovered
  OBVIOUS
<1>4. PICK k \in Nat \ {0} : k = session[t].batch /\ plan \in Seq(Program!Entry)
  BY <1>3, PlanOf
<1>5. Ledgers(at, sees, plan, k, recovered) /\ at \in {"recount", "flag"}
  BY <1>1, <1>2, <1>3, <1>4 DEF Booked
<1>6. /\ PaidUpTo(plan, k * BatchSize) /\ RecordedUpTo(plan, k * BatchSize)
      /\ Covered(plan, k * BatchSize)
      /\ \A w \in Wallets \ marked : paid[w] = 0
  BY <1>5 DEF Ledgers
<1>7. /\ PaidUpTo(plan, k * BatchSize)' /\ RecordedUpTo(plan, k * BatchSize)'
      /\ Covered(plan, k * BatchSize)'
      /\ \A w \in Wallets \ marked' : paid'[w] = 0
  BY <1>6 DEF PaidUpTo, RecordedUpTo, Covered
<1>8. PICK nb, next :
         /\ nb = (IF LastBatch(t) THEN "buildSweep" ELSE "send")
         /\ next = (IF LastBatch(t) THEN k ELSE k + 1)
  OBVIOUS
<1>9. Now(t, nb, sees, eligible, plan, next, recovered)
  <2>1. nb \in Labels /\ next \in Nat \ {0}
    BY <1>8 DEF Labels
  <2>2. QED
    BY <1>1, <1>2, <1>3, <1>4, <1>8, <2>1, NextBatchNow
<1>10. CASE LastBatch(t)
  <2>1. Least(k * BatchSize, Len(plan)) = Len(plan) /\ Least(Len(plan), Len(plan)) = Len(plan)
    <3>1. k * BatchSize \in Nat
      BY <1>4, BatchEdges
    <3>2. Len(plan) \in Nat
      BY <1>4
    <3>3. k * BatchSize >= Len(plan)
      BY <1>3, <1>4, <1>10 DEF LastBatch
    <3>4. QED
      BY <3>1, <3>2, <3>3 DEF Least
  <2>2. PaidUpTo(plan, Len(plan))' /\ RecordedUpTo(plan, Len(plan))'
    BY <1>7, <2>1 DEF PaidUpTo, RecordedUpTo
  <2>3. Ledgers(nb, sees, plan, next, recovered)'
    BY <1>7, <1>8, <1>10, <2>2 DEF Ledgers, Recovering, Sweeping
  <2>4. QED
    BY <1>9, <2>3, BookedNow
<1>11. CASE ~LastBatch(t)
  <2>1. next = k + 1 /\ (next - 1) * BatchSize = k * BatchSize
    BY <1>8, <1>11, BatchEdges
  <2>2. Ledgers(nb, sees, plan, next, recovered)'
    BY <1>7, <1>8, <1>11, <2>1 DEF Ledgers, Recovering, Sweeping
  <2>3. QED
    BY <1>9, <2>2, BookedNow
<1>12. QED
  BY <1>10, <1>11

(* A tab that has seen the end of a distribution keeps its plan.           *)
LEMMA BookedFinish ==
  ASSUME OneTab, InStep, NEW t \in Tabs, session[t].at \in Sweeping, Finish(t),
         UNCHANGED <<paid, marked, credited, vault>>
  PROVE  \A u \in Tabs : Booked(session[u])'
<1>1. /\ session \in [Tabs -> Session] /\ Booked(session[t])
  BY InStepGives
<1>2. PICK before \in BOOLEAN, sees \in BOOLEAN : before = session[t].sees /\ sees = TRUE
  BY <1>1, SessionFields
<1>3. PICK at, label, eligible, plan, k, recovered :
         /\ at = session[t].at /\ label = "idle" /\ eligible = session[t].eligible
         /\ plan = session[t].plan /\ k = session[t].batch /\ recovered = session[t].recovered
  OBVIOUS
<1>4. Now(t, label, sees, eligible, plan, k, recovered)
  BY <1>1, <1>2, <1>3, FinishNow
<1>5. Ledgers(at, before, plan, k, recovered)
  BY <1>1, <1>2, <1>3 DEF Booked
<1>6. at \in Sweeping /\ at \notin {"loadForm", "validate", "mark"}
      /\ label \notin {"send", "sent", "loadForm", "validate", "mark", "count", "losers", "recount", "flag"}
      /\ label \notin Recovering
  BY <1>3 DEF Sweeping, Recovering
<1>7. Ledgers(label, sees, plan, k, recovered)'
  BY <1>5, <1>6, LedgersStay
<1>8. QED
  BY <1>4, <1>7, BookedNow

(* Closing a survey moves no money.                                        *)
LEMMA ClosingPaysNothing ==
  ASSUME NEW t \in Tabs, SendClose(t)
  PROVE  UNCHANGED <<paid, marked, credited, vault>>
<1>1. UNCHANGED <<marked, credited>>
  BY DEF SendClose, db, ledger
<1>2. CASE Program!CloseSurvey(Creator)
  BY <1>1, <1>2 DEF Program!CloseSurvey, Program!moneyVars
<1>3. CASE UNCHANGED chain
  BY <1>1, <1>3 DEF chain
<1>4. QED
  BY <1>2, <1>3 DEF SendClose, CloseSurveyTx

(* The tab stays in step.                                                  *)
LEMMA BookedStep ==
  ASSUME Undisturbed, InStep, [Next]_vars
  PROVE  \A u \in Tabs : Booked(session[u])'
<1>1. /\ OneTab /\ RewardType = "weighted"
      /\ \A u \in Tabs : Booked(session[u])
  BY InStepIs DEF Undisturbed
<1>2. ASSUME UNCHANGED <<session, paid, marked, credited, vault>>
      PROVE  \A u \in Tabs : Booked(session[u])'
  <2>1. SUFFICES ASSUME NEW t \in Tabs PROVE \A u \in Tabs : Booked(session[u])'
    OBVIOUS
  <2>2. PICK at, eligible, plan, k, recovered :
           /\ at = session[t].at /\ eligible = session[t].eligible
           /\ plan = session[t].plan /\ k = session[t].batch /\ recovered = session[t].recovered
    OBVIOUS
  <2>3. session \in [Tabs -> Session]
    BY InStepGives
  <2>4. PICK sees \in BOOLEAN : sees = session[t].sees
    BY <2>3, SessionFields
  <2>5. Now(t, at, sees, eligible, plan, k, recovered)
    BY <1>2, <2>2, <2>3, <2>4 DEF Now, IsSession
  <2>6. Ledgers(at, sees, plan, k, recovered)
    BY <1>1, <2>2, <2>4 DEF Booked
  <2>7. Ledgers(at, sees, plan, k, recovered)'
    BY <1>2, <2>6 DEF Ledgers, PaidUpTo, RecordedUpTo, Covered
  <2>8. QED
    BY <1>1, <2>5, <2>7, BookedNow
<1>3. ASSUME NEW t \in Tabs, NEW label \in {"idle", "confirmClose", "responses"}, Goto(t, label),
             session[t].at \in {"idle", "confirmClose", "responses", "balance", "send", "sent"},
             label = "idle" => session[t].at # "idle",
             UNCHANGED <<paid, marked, credited, vault>>
      PROVE  \A u \in Tabs : Booked(session[u])'
  <2>1. /\ label \in Labels /\ label \notin Recovering \cup Sweeping
    BY <1>3 DEF Labels, Recovering, Sweeping
  <2>2. QED
    BY <1>1, <1>3, <2>1, BookedGoto
<1>4. ASSUME NEW t \in Tabs, SendClose(t) \/ PressDistribute(t) \/ ConfirmClose(t)
      PROVE  \A u \in Tabs : Booked(session[u])'
  <2>1. UNCHANGED <<paid, marked, credited, vault>>
    BY <1>4, ClosingPaysNothing DEF PressDistribute, ConfirmClose, chain, db, ledger
  <2>2. /\ session[t].at \in {"idle", "confirmClose"}
        /\ \E label \in {"idle", "confirmClose", "responses"} :
              Goto(t, label) /\ (label = "idle" => session[t].at # "idle")
    BY <1>4 DEF SendClose, PressDistribute, ConfirmClose
  <2>3. QED
    BY <1>3, <2>1, <2>2
<1>5. ASSUME NEW t \in Tabs, ReadResponses(t)
      PROVE  \A u \in Tabs : Booked(session[u])'
  <2>1. session[t].at = "responses" /\ UNCHANGED <<paid, marked, credited, vault>>
    BY <1>5 DEF ReadResponses, chain, db, ledger
  <2>2. CASE Eligible = <<>>
    BY <1>3, <1>5, <2>1, <2>2 DEF ReadResponses
  <2>3. CASE Eligible # <<>>
    <3>1. session \in [Tabs -> Session] /\ DbConsistent
      BY InStepGives
    <3>2. PICK e \in Seq(Wallets) : e = Eligible
      BY <3>1, EligibleIs
    <3>3. session' = [session EXCEPT ![t].at = "balance", ![t].eligible = e]
      BY <1>5, <2>3, <3>2, Zenon DEF ReadResponses
    <3>4. PICK at, label, plan, k, recovered :
             /\ at = "responses" /\ label = "balance" /\ plan = session[t].plan
             /\ k = session[t].batch /\ recovered = session[t].recovered
      OBVIOUS
    <3>5. PICK sees \in BOOLEAN : sees = session[t].sees
      BY <3>1, SessionFields
    <3>6. Now(t, label, sees, e, plan, k, recovered)
      BY <3>1, <3>3, <3>4, <3>5, ReadResponsesNow
    <3>7. Ledgers(at, sees, plan, k, recovered)
      BY <1>1, <2>1, <3>4, <3>5 DEF Booked
    <3>8. Ledgers(label, sees, plan, k, recovered)'
      BY <2>1, <3>4, <3>7, LedgersStay DEF Recovering, Sweeping
    <3>9. QED
      BY <1>1, <3>6, <3>8, BookedNow
  <2>4. QED
    BY <2>2, <2>3
<1>6. ASSUME NEW t \in Tabs, RecoverFlag(t)
      PROVE  \A u \in Tabs : Booked(session[u])'
  <2>1. /\ session[t].at = "recoverFlag" /\ Goto(t, "buildSweep")
        /\ UNCHANGED <<paid, marked, credited, vault>>
    BY <1>6 DEF RecoverFlag, chain, ledger
  <2>2. QED
    BY <1>1, <2>1, BookedGoto DEF Labels, Recovering, Sweeping
<1>7. ASSUME NEW t \in Tabs, SendBatch(t)
      PROVE  \A u \in Tabs : Booked(session[u])'
  <2>1. session[t].at = "send" /\ UNCHANGED <<paid, marked, credited, vault>>
    BY <1>7 DEF SendBatch, chain, db, ledger
  <2>2. CASE Goto(t, "sent")
    BY <1>1, <2>1, <2>2, BookedGoto DEF Labels, Recovering, Sweeping
  <2>3. CASE Goto(t, "idle")
    BY <1>3, <2>1, <2>3
  <2>4. QED
    BY <1>7, <2>2, <2>3 DEF SendBatch
<1>8. ASSUME NEW t \in Tabs, LoadForm(t) \/ ValidateWallets(t)
      PROVE  \A u \in Tabs : Booked(session[u])'
  <2>1. /\ session[t].at \in {"loadForm", "validate"}
        /\ UNCHANGED <<paid, marked, credited, vault>>
    BY <1>8 DEF LoadForm, ValidateWallets, chain, db, ledger
  <2>2. ~rewardDistributed /\ Valid(CurrentBatch(t))
    BY <2>1, InStepGives, ConfirmationAccepts
  <2>3. PICK label \in {"validate", "mark"} : Goto(t, label)
    BY <1>8, <2>2 DEF LoadForm, ValidateWallets
  <2>4. label \in Labels /\ label \notin Recovering \cup Sweeping
    BY DEF Labels, Recovering, Sweeping
  <2>5. QED
    BY <1>1, <2>1, <2>3, <2>4, BookedGoto
<1>9. ASSUME NEW t \in Tabs, CountRemaining(t)
      PROVE  \A u \in Tabs : Booked(session[u])'
  <2>1. session[t].at = "count" /\ UNCHANGED <<paid, marked, credited, vault>>
    BY <1>9 DEF CountRemaining, chain, db, ledger
  <2>2. PICK label \in {"losers", "recount"} : Goto(t, label)
    BY <1>9 DEF CountRemaining
  <2>3. label \in Labels /\ label \notin Recovering \cup Sweeping
    BY DEF Labels, Recovering, Sweeping
  <2>4. QED
    BY <1>1, <2>1, <2>2, <2>3, BookedGoto
<1>10. ASSUME NEW t \in Tabs, Recount(t)
       PROVE  \A u \in Tabs : Booked(session[u])'
  <2>1. session[t].at = "recount" /\ UNCHANGED <<paid, marked, credited, vault>>
    BY <1>10 DEF Recount, chain, db, ledger
  <2>2. CASE Goto(t, "flag")
    BY <1>1, <2>1, <2>2, BookedGoto DEF Labels, Recovering, Sweeping
  <2>3. CASE NextBatch(t)
    BY <1>1, <2>1, <2>3, BookedNextBatch
  <2>4. QED
    BY <1>10, <2>2, <2>3 DEF Recount
<1>11. ASSUME NEW t \in Tabs, FlagDistributed(t)
       PROVE  \A u \in Tabs : Booked(session[u])'
  <2>1. /\ session[t].at = "flag" /\ NextBatch(t)
        /\ UNCHANGED <<paid, marked, credited, vault>>
    BY <1>11 DEF FlagDistributed, chain, ledger
  <2>2. QED
    BY <1>1, <2>1, BookedNextBatch
<1>12. ASSUME NEW t \in Tabs, BuildSweep(t) \/ ConfirmSweep(t)
       PROVE  \A u \in Tabs : Booked(session[u])'
  <2>1. session[t].at \in Sweeping /\ UNCHANGED <<paid, marked, credited, vault>>
    BY <1>12 DEF BuildSweep, ConfirmSweep, chain, db, ledger, Sweeping
  <2>2. CASE Finish(t)
    BY <1>1, <2>1, <2>2, BookedFinish
  <2>3. CASE Goto(t, "sweep")
    BY <1>1, <2>1, <2>3, BookedGoto DEF Labels, Recovering, Sweeping
  <2>4. QED
    BY <1>12, <2>2, <2>3 DEF BuildSweep, ConfirmSweep
<1>13. ASSUME NEW t \in Tabs, SweepEscrow(t)
       PROVE  \A u \in Tabs : Booked(session[u])'
  <2>1. session[t].at = "sweep" /\ UNCHANGED <<marked, credited>> /\ session[t].at \in Sweeping
    BY <1>13 DEF SweepEscrow, db, ledger, Sweeping
  <2>2. CASE Goto(t, "confirmSweep") /\ UNCHANGED paid
    <3>1. PICK label : label = "confirmSweep"
      OBVIOUS
    <3>2. Goto(t, label) /\ label \in Labels /\ label \in Sweeping /\ label \notin Recovering
      BY <2>2, <3>1 DEF Labels, Recovering, Sweeping
    <3>3. QED
      BY <1>1, <2>1, <2>2, <3>1, <3>2, BookedGoto
  <2>3. CASE Finish(t) /\ UNCHANGED chain
    BY <1>1, <2>1, <2>3, BookedFinish DEF chain
  <2>4. Program!CloseEscrow(Creator) \/ Program!CloseEscrowSpl(Creator) => UNCHANGED paid
    BY DEF Program!CloseEscrow, Program!CloseEscrowSpl, Program!Sweep
  <2>5. QED
    BY <1>13, <2>2, <2>3, <2>4 DEF SweepEscrow, SweepRefused, CloseEscrowTx, CloseEscrowSplTx
<1>14. ASSUME NEW t \in Tabs, Reload(t)
       PROVE  \A u \in Tabs : Booked(session[u])'
  <2>1. /\ session \in [Tabs -> Session] /\ Sequenced(session[t]) /\ DbConsistent
    BY InStepGives
  <2>2. PICK d \in BOOLEAN, before \in BOOLEAN : d = rewardDistributed /\ before = session[t].sees
    BY <2>1, SessionFields DEF DbConsistent
  <2>3. /\ session[t].at = "idle" /\ before # d
        /\ UNCHANGED <<paid, marked, credited, vault>>
    BY <1>14, <2>2 DEF Reload, chain, db, ledger
  <2>4. ~d
    BY <2>1, <2>2, <2>3 DEF Sequenced, Sweeping
  <2>5. PICK at, eligible, plan, k, recovered :
           /\ at = session[t].at /\ eligible = session[t].eligible
           /\ plan = session[t].plan /\ k = session[t].batch /\ recovered = session[t].recovered
    OBVIOUS
  <2>6. Now(t, at, d, eligible, plan, k, recovered)
    BY <1>14, <2>1, <2>2, <2>5, ReloadNow
  <2>7. Ledgers(at, before, plan, k, recovered)
    BY <1>1, <2>2, <2>5 DEF Booked
  <2>8. Ledgers(at, d, plan, k, recovered)'
    BY <2>3, <2>4, <2>5, <2>7, LedgersStay DEF Recovering, Sweeping
  <2>9. QED
    BY <1>1, <2>6, <2>8, BookedNow
<1>15. ASSUME NEW w \in Wallets,
              \/ ReserveSlot(w) \/ CreateResponse(w)
              \/ \E verdict \in {"clean", "flagged", "rejected"} : ModerateResponse(w, verdict)
       PROVE  \A u \in Tabs : Booked(session[u])'
  <2>1. UNCHANGED <<session, paid, marked, credited, vault>>
    BY <1>15 DEF ReserveSlot, CreateResponse, ModerateResponse, chain, ledger
  <2>2. QED
    BY <1>2, <2>1
<1>16. CASE UNCHANGED vars
  BY <1>2, <1>16 DEF vars, chain, db, ledger
<1>17. \A t \in Tabs : ~Abandon(t)
  BY InStepGives, NoAbandon
<1>18. ASSUME NEW t \in Tabs, Refuse(t)
       PROVE  \A u \in Tabs : Booked(session[u])'
  <2>1. UNCHANGED <<paid, marked, credited, vault>>
    BY <1>18 DEF Refuse, chain, db, ledger
  <2>2. CASE session[t].at \in {"send", "sent"} /\ Goto(t, "idle")
    BY <1>3, <2>1, <2>2
  <2>3. CASE session[t].at = "sweep" /\ Finish(t)
    BY <1>1, <2>1, <2>3, BookedFinish DEF Sweeping
  <2>4. QED
    BY <1>18, <2>2, <2>3 DEF Refuse
<1>19. QED
  BY <1>1, <1>4, <1>5, <1>6, <1>7, <1>8, <1>9, <1>10, <1>11, <1>12, <1>13, <1>14, <1>15, <1>16,
     <1>17, <1>18, BookedBalance, BookedRecover, BookedLand, BookedMark, BookedLosers
  DEF Next, TabStep, CodeStep, SignedStep

(* When an undisturbed tab reports success, the recipients of the plan it  *)
(* carried out have been paid exactly the amounts of the plan, and MongoDB *)
(* says the same, for any number of respondents, badges, pool and batch    *)
(* size, whoever answers or is moderated in the meantime.                  *)
THEOREM UndisturbedPlanPaidAndRecorded ==
  ASSUME Undisturbed
  PROVE  Spec => []PlanPaidAndRecorded
<1>1. Init => InStep
  <2>1. SUFFICES ASSUME Init PROVE InSequence /\ \A t \in Tabs : Booked(session[t])
    BY InStepIs
  <2>2. /\ \A t \in Tabs : session[t].at = "idle" /\ ~session[t].sees
        /\ \A w \in Wallets : paid[w] = 0
    BY <2>1 DEF Init
  <2>3. QED
    BY <2>1, <2>2, InitInSequence DEF Booked, Ledgers, Recovering, Sweeping
<1>2. InStep /\ [Next]_vars => InStep'
  <2>1. SUFFICES ASSUME InStep, [Next]_vars PROVE InStep'
    OBVIOUS
  <2>2. InSequence'
    BY <2>1, InStepIs, StepInSequence
  <2>3. \A t \in Tabs : Booked(session[t])'
    BY <2>1, BookedStep
  <2>4. QED
    BY <2>2, <2>3 DEF InStep, Booked, Ledgers, UnpaidUnlessLanded, CurrentBatch
<1>3. InStep => PlanPaidAndRecorded
  <2>1. SUFFICES ASSUME InStep, NEW t \in Tabs,
                        session[t].at = "idle", session[t].sees, ~session[t].recovered,
                        NEW e \in Range(session[t].plan)
                 PROVE  paid[e.to] = e.amount /\ credited[e.to] = e.amount
    BY DEF PlanPaidAndRecorded
  <2>2. PICK plan : plan = session[t].plan
    OBVIOUS
  <2>3. plan \in Seq(Program!Entry)
    BY <2>1, <2>2, PlanOf
  <2>4. PaidUpTo(plan, Len(plan)) /\ RecordedUpTo(plan, Len(plan))
    BY <2>1, <2>2, InStepGives DEF Booked, Ledgers
  <2>5. PICK i \in 1..Len(plan) : e = plan[i]
    <3>1. DOMAIN plan = 1..Len(plan)
      BY <2>3
    <3>2. QED
      BY <2>1, <2>2, <3>1 DEF Range
  <2>6. Least(Len(plan), Len(plan)) = Len(plan)
    BY DEF Least
  <2>7. QED
    BY <2>4, <2>5, <2>6 DEF PaidUpTo, RecordedUpTo
<1>4. QED
  BY <1>1, <1>2, <1>3, PTL DEF Spec
=============================================================================
