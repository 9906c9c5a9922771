--------------------------- MODULE MCMarketRefresh ---------------------------
(* Constant values for model-checking MarketRefresh. *)
EXTENDS MarketRefresh

CONSTANTS m1, m2

Stage(closed, active, funded) ==
    [closed |-> closed, active |-> active, ready |-> funded, funded |-> funded]

(* Announced, tradable, closed. *)
MCLife == <<Stage(FALSE, TRUE, FALSE), Stage(FALSE, TRUE, TRUE), Stage(TRUE, TRUE, TRUE)>>

(* Announced, tradable; tradable, closed. *)
MCEarlyLife == SubSeq(MCLife, 1, 2)
MCLateLife == SubSeq(MCLife, 2, 3)

(* The table refuses a market as long as it is tradable, once it is closed. *)
MCRefused == {<<m1, "active">>}
MCClosedRefused == {<<m1, "closed">>}
MCNoneRefused == {}
=============================================================================
