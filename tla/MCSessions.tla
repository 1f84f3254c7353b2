----------------------------- MODULE MCSessions -----------------------------
(* Two wallets, one of which cannot sign messages; two calls at a time; a  *)
(* session and what two refreshes make of it; one event that ends it.      *)
EXTENDS Sessions, TLC

Symmetry == Permutations(Calls)
=============================================================================
