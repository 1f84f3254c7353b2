---------------------------- MODULE MCPublication ----------------------------
(* Two clicks; a survey paid in SOL that the creator can afford twice, one *)
(* paid in tokens, one that is not finished.                               *)
EXTENDS Publication

D(ready, pool, coin) == [ready |-> ready, pool |-> pool, coin |-> coin]

MCBlank    == D(FALSE, 10, "SOL")
MCDrafts   == {MCBlank, D(TRUE, 10, "SOL"), D(TRUE, 12, "SPL")}
MCBalances == [SOL |-> 25, SPL |-> 12]
MCMinPool  == [SOL |-> 5, SPL |-> 5]
MCMaxPool  == [SOL |-> 20, SPL |-> 20]
=============================================================================
