----------------------------- MODULE MCClobMerge -----------------------------
(* Constant values for model-checking ClobMerge. *)
EXTENDS ClobMerge

(* Two full markets, and one with a single token id before a full one. *)
MCMarketLists == {<<Sides, Sides>>, <<{"no"}, Sides>>}
=============================================================================
