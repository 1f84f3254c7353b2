------------------------------ MODULE MCPayout ------------------------------
(* Small instances of Payout: up to three respondents, of whom one may     *)
(* answer late, and one or two tabs of the creator.                        *)
EXTENDS Payout

CONSTANTS w1, w2, w3, creator, authority, tab1, tab2

MCTwoWallets   == {w1, w2}
MCThreeWallets == {w1, w2, w3}
MCNobodyLate   == {}
MCOneLate      == {w3}
MCSecondLate   == {w2}
MCBoth         == {"SOL", "SPL"}
MCSpl          == {"SPL"}
MCOneTab       == {tab1}
MCTwoTabs      == {tab1, tab2}

(* A Ghost and two higher badges, so that shares differ and round.         *)
MCTier == [w \in Wallets |-> IF w = w1 THEN "Sovereign" ELSE IF w = w2 THEN "Ghost" ELSE "Cipher"]

(* The division, for every assignment of badge tiers to at most four       *)
(* participants and every pool up to fifteen units.                        *)
MCTiers == UNION {[1..n -> Tiers] : n \in 1..4}
MCPools == 0..15

EveryDivisionIsFair == \A tiers \in MCTiers, pool \in MCPools : DividesFairly(tiers, pool)

(* Every division pays out exactly the pool, in proportion to the badge    *)
(* weights, and never a higher badge less than a lower one                 *)
(* (calculateWeightedAmounts: whatever the divisions truncate); and so     *)
(* does the plan of a weighted survey that a tab carries, also one that    *)
(* was made of what an earlier distribution and the rent have left.        *)
SharesAreFair ==
    /\ EveryDivisionIsFair
    /\ \A t \in Tabs : \A e, f \in Range(session[t].plan) :
          Weight(Tier[e.to]) > Weight(Tier[f.to]) => e.amount >= f.amount
=============================================================================
