-------------------------- MODULE RewardLifecycle --------------------------
(***************************************************************************)
(* What the payout of one survey promises, seen from outside: the pool is  *)
(* escrowed, paid out in one or several payments, recorded as distributed, *)
(* and only then is what is left returned to the creator, once.            *)
(***************************************************************************)
EXTENDS Naturals

VARIABLES
    phase,  \* see Phases, in this order
    out     \* what respondents have been paid in total

Phases == {"escrowed", "paying", "distributed", "swept", "recorded"}

Init == phase = "escrowed" /\ out = 0

(* Payments may go on after the record is made (another session of the     *)
(* creator is still paying), never after the sweep.                        *)
Pay ==
    /\ phase \in {"escrowed", "paying", "distributed"}
    /\ out' \in Nat /\ out' > out
    /\ phase' = IF phase = "escrowed" THEN "paying" ELSE phase

RecordDistributed == phase = "paying" /\ phase' = "distributed" /\ UNCHANGED out
Sweep             == phase = "distributed" /\ phase' = "swept" /\ UNCHANGED out
RecordSwept       == phase = "swept" /\ phase' = "recorded" /\ UNCHANGED out

Next == Pay \/ RecordDistributed \/ Sweep \/ RecordSwept

Spec == Init /\ [][Next]_<<phase, out>>
=============================================================================
