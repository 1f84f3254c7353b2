--------------------------- MODULE WeightedShares ---------------------------
(***************************************************************************)
(* How a reward pool is divided: calculateWeightedAmounts of the           *)
(* distribution service (the arithmetic is on BigInt: no overflow, `/`     *)
(* truncates) and the lucky draw of buildDistributeTx.                     *)
(***************************************************************************)
EXTENDS Integers, Sequences

(* BADGE_WEIGHTS; a tier it does not list weighs as much as a Ghost.       *)
BadgeWeights == [Ghost |-> 50, Cipher |-> 75, Sentinel |-> 100, Oracle |-> 125, Sovereign |-> 150]

Weight(tier) == IF tier \in DOMAIN BadgeWeights THEN BadgeWeights[tier] ELSE 50

(* SumOf(s)[k]: the sum of the first k elements of s.                      *)
SumOf(s) ==
    LET sum[k \in 0..Len(s)] == IF k = 0 THEN 0 ELSE sum[k-1] + s[k]
    IN  sum

Total(s) == SumOf(s)[Len(s)]

(* Mutant: rounding to the nearest unit.                                   *)
FloorsRounded(weights, pool) ==
    [i \in 1..Len(weights) |-> (2 * pool * weights[i] + Total(weights)) \div (2 * Total(weights))]

Floors(weights, pool) == [i \in 1..Len(weights) |-> (pool * weights[i]) \div Total(weights)]

(* findIndex of the maximal weight: the first one.                         *)
Highest(weights) ==
    CHOOSE i \in 1..Len(weights) :
       /\ \A j \in 1..Len(weights) : weights[j] <= weights[i]
       /\ \A j \in 1..(i-1) : weights[j] < weights[i]

(* The remainder of the divisions goes to the first highest weight.        *)
Shares(weights, pool) ==
    LET floors    == Floors(weights, pool)
        remainder == pool - Total(floors)
        favoured  == Highest(weights)
    IN  IF remainder > 0 THEN [floors EXCEPT ![favoured] = @ + remainder] ELSE floors

(* Lucky draw: winners get equal parts, the creator what is left over.     *)
NumWinners(wanted, participants) == IF wanted < participants THEN wanted ELSE participants
PerWinner(pool, winners) == pool \div winners
Leftover(pool, winners)  == pool - winners * PerWinner(pool, winners)

-----------------------------------------------------------------------------
(***************************************************************************)
(* Properties of a division, for positive weights of at least one          *)
(* participant                                                             *)
(***************************************************************************)

(* The shares are the whole pool, so that DISTRIBUTION_MATH_ERROR is never *)
(* thrown: the truncating divisions lose nothing and never overshoot.      *)
DividesExactly(weights, pool) == Total(Shares(weights, pool)) = pool

(* A share is proportional to the weight up to rounding: it lacks less     *)
(* than one unit, and exceeds by less than one unit per participant        *)
(* ("0.5x to 1.5x": nobody's multiplier is lost in a small pool).          *)
ProportionalToWeight(weights, pool) ==
    LET shares == Shares(weights, pool)
        total  == Total(weights)
    IN  \A i \in 1..Len(weights) :
           /\ shares[i] * total > pool * weights[i] - total
           /\ shares[i] * total < pool * weights[i] + Len(weights) * total

(* A higher badge is never paid less, remainder included.                  *)
HigherWeightNeverLess(weights, pool) ==
    LET shares == Shares(weights, pool)
    IN  \A i, j \in 1..Len(weights) : weights[i] > weights[j] => shares[i] >= shares[j]

(* Whom a pool is divided among: badge tiers, listed or not.               *)
Tiers == DOMAIN BadgeWeights \cup {"Unlisted"}
WeightsOf(tiers) == [i \in 1..Len(tiers) |-> Weight(tiers[i])]

(* A fair division of a pool: all three.                                   *)
DividesFairly(tiers, pool) ==
    /\ DividesExactly(WeightsOf(tiers), pool)
    /\ ProportionalToWeight(WeightsOf(tiers), pool)
    /\ HigherWeightNeverLess(WeightsOf(tiers), pool)
=============================================================================
