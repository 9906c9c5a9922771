----------------------------- MODULE MCCollector -----------------------------
(* Constant values for model-checking Collector. *)
EXTENDS Collector, TLC

CONSTANTS btcYes, btcNo, ethYes

(* The lists the cache may be filled with. *)
MCThreeTokens == {<<>>, <<btcNo, btcYes, ethYes>>}
MCOneToken == {<<>>, <<btcYes>>}

MCSymmetry == Permutations(Hashes) \cup Permutations(Stamps)
=============================================================================
