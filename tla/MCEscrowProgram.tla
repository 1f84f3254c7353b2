--------------------------- MODULE MCEscrowProgram ---------------------------
(* A small instance of EscrowProgram: two respondents, pools at and beside *)
(* the minimum and maximum, and every batch of at most two entries whose   *)
(* amounts range from zero to more than the escrow can hold.               *)
EXTENDS EscrowProgram

CONSTANTS w1, w2, creator, authority

MCWallets  == {w1, w2}
MCMinPool  == [c \in Currency |-> 2]
MCMaxPool  == [SOL |-> 3, SPL |-> 2]
MCPools    == 1..4
MCCapacity == 0..2
MCFees     == 0..2
MCAmounts  == {0, 1, 2, 4}
MCEntries  == [to : Payees, amount : MCAmounts, canonical : {TRUE}]
                \cup [to : {w1}, amount : {0, 1}, canonical : {FALSE}]
MCBatches  == {<<>>} \cup {<<e>> : e \in MCEntries} \cup (MCEntries \X MCEntries)
=============================================================================
