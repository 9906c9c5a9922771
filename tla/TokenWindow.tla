----------------------------- MODULE TokenWindow -----------------------------
(***************************************************************************)
(* The collector's token list (internal/collector/collector.go) over the   *)
(* rows discovery stores: every RefreshEvery ticks the token refresher     *)
(* computes the slug of the current window, and then queries its tokens.   *)
(* An error, or an answer without any token, keeps the old list, whose     *)
(* market may have closed.                                                 *)
(*                                                                         *)
(* One symbol and interval is followed; cache is the window whose tokens   *)
(* are in its list.  Markets are stored with their token ids, and a query  *)
(* ends before the refresher's ticker fires again.                         *)
(*                                                                         *)
(* BugSlugToAsk is a mistake the mutation runs put in place of SlugToAsk.  *)
(***************************************************************************)
EXTENDS PunctualDiscovery

CONSTANTS
    RefreshEvery,        \* cfg.CollectorTokenRefreshS, in ticks
    MaxFailures          \* bound on the failed queries of a window

ASSUME TokenWindowAssumption ==
    RefreshEvery \in Nat \ {0} /\ MaxFailures \in Nat

VARIABLES
    cache,               \* window whose tokens are in cachedTokens, or -1
    asked,               \* window whose tokens are being queried, or -1
    due,                 \* ticks until the refresher's ticker fires
    \* History, read by no action but the bound on failures:
    since,               \* when this window, or the process if later, began
    failures             \* queries that have failed since then

listVars == <<cache, asked, due, since, failures>>
windowVars == <<punctualVars, listVars>>

WindowTypeOK ==
    /\ PunctualTypeOK
    /\ cache \in -1..now
    /\ cache # -1 => cache \in stored
    /\ asked \in -1..now
    /\ due \in 0..RefreshEvery
    /\ since \in Window..now
    /\ failures \in 0..MaxFailures

WindowInit ==
    /\ PunctualInit
    /\ cache = -1 /\ asked = -1 /\ due = 0
    /\ since = 0 /\ failures = 0

(* refreshTokens runs at once when the loop starts and then on each tick of *)
(* its ticker; it computes the slug ...                                     *)
BugSlugToAsk == IF cache = -1 THEN Window ELSE cache
SlugToAsk == Window

RefreshBegin ==
    /\ due = 0 /\ asked = -1
    /\ asked' = SlugToAsk /\ due' = RefreshEvery
    /\ UNCHANGED <<punctualVars, cache, since, failures>>

(* ... and GetActiveMarketTokens looks it up, maybe in a later window.  One *)
(* query serves all symbols and intervals: when this one has no row, the    *)
(* list is replaced if others do, and kept if nothing was found.            *)
RefreshEnd ==
    /\ asked # -1
    /\ IF asked \in stored
       THEN cache' = asked
       ELSE \E others \in BOOLEAN : cache' = IF others THEN -1 ELSE cache
    /\ asked' = -1
    /\ UNCHANGED <<punctualVars, due, since, failures>>

RefreshFails ==
    /\ asked # -1 /\ failures < MaxFailures
    /\ asked' = -1 /\ failures' = failures + 1
    /\ UNCHANGED <<punctualVars, cache, due, since>>

(* Discovery goes on meanwhile. *)
Discover ==
    /\ PunctualStart \/ PunctualFetch \/ PunctualStore
    /\ UNCHANGED listVars

(* The process is restarted, whatever discovery is doing. *)
WindowRestart ==
    /\ PunctualRestart \/ (worker = "idle" /\ UNCHANGED punctualVars)
    /\ cache' = -1 /\ asked' = -1 /\ due' = 0
    /\ since' = now /\ failures' = 0

WindowTick ==
    /\ due > 0
    /\ PunctualTick
    /\ due' = due - 1
    /\ IF (now + 1) % Dur = 0 THEN since' = now + 1 /\ failures' = 0
                              ELSE UNCHANGED <<since, failures>>
    /\ UNCHANGED <<cache, asked>>

WindowNext ==
    \/ RefreshBegin \/ RefreshEnd \/ RefreshFails
    \/ Discover \/ WindowRestart \/ WindowTick

WindowSpec == WindowInit /\ [][WindowNext]_windowVars

-----------------------------------------------------------------------------
(* The collector does not go on with a closed market for long: two refresh  *)
(* periods into a window, and one more for each query that failed in it,    *)
(* its list holds the tokens of that window.                                *)
TokensFollowWindow ==
    now >= Dur /\ now - since >= (2 + failures) * RefreshEvery => cache = Window
=============================================================================
