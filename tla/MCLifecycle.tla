----------------------------- MODULE MCLifecycle -----------------------------
(* Constant values for model-checking Lifecycle. *)
EXTENDS Lifecycle

CONSTANTS btcYes, btcNo

(* The cache is filled, replaced by a longer list and by a shorter one. *)
MCTokenLists == {<<>>, <<btcYes>>, <<btcNo, btcYes>>}
=============================================================================
