---------------------------- MODULE MCReputation ----------------------------
(* A new wallet with responses to two weighted surveys, which may race to  *)
(* create its account, and an established one, whose response belongs to a *)
(* survey that is weighted or (a penalty is due all the same) is not.      *)
EXTENDS Reputation

CONSTANTS new, old, a, b, c, desk1

(* A survey of two questions, filled in with care (50 points), and left    *)
(* empty at once by a wallet without history (10).                         *)
Survey  == <<[required |-> TRUE, longText |-> FALSE, minWords |-> 0],
             [required |-> FALSE, longText |-> TRUE, minWords |-> 5]>>
Careful == [questions |-> Survey,
            answers |-> <<[nonEmpty |-> TRUE, words |-> 1], [nonEmpty |-> TRUE, words |-> 5]>>,
            elapsed |-> 30000, age |-> 90, balance |-> 100000000]
Hasty   == [questions |-> Survey,
            answers |-> <<[nonEmpty |-> FALSE, words |-> 0], [nonEmpty |-> TRUE, words |-> 3]>>,
            elapsed |-> 29999, age |-> 29, balance |-> 99999999]

MCWallets      == {new, old}
MCResponses    == {a, b, c}
MCRespondent   == [r \in MCResponses |-> IF r = c THEN old ELSE new]
MCTwoWeighted  == {a, b}
MCAllWeighted  == {a, b, c}
MCSubmission   == [r \in MCResponses |-> IF r = a THEN Careful ELSE Hasty]
MCEstablished  == {old}
MCOneDesk      == {desk1}
=============================================================================
