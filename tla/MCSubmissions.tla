---------------------------- MODULE MCSubmissions ----------------------------
(* Three requests of two wallets and the creator for two places: enough    *)
(* for a double click beside another respondent, a request that waits      *)
(* while others fill the survey, and one that finds it full.               *)
EXTENDS Submissions

CONSTANTS r1, r2, r3, w1, w2, creator

MCRequests == {r1, r2, r3}
MCWallets  == {w1, w2}
=============================================================================
