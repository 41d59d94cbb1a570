------------------------------- MODULE MCNetwork -------------------------------
(* Small instances of Network for TLC: the SOCKET values are model values, *)
(* of which only equality is ever used, so they may be permuted.           *)
EXTENDS Network, TLC

HandlePermutations == Permutations(Handles)
=============================================================================
