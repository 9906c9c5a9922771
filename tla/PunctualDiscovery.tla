-------------------------- MODULE PunctualDiscovery --------------------------
(***************************************************************************)
(* Discovery in a setting where the worker should keep up.  Gamma lists    *)
(* windows in order, Ahead of them before they start, and answers every    *)
(* request; the first upsert of a cycle is not lost; and in every window   *)
(* some cycle both starts and ends.  The process may still be restarted at *)
(* any point, and the second upsert may be lost.                           *)
(***************************************************************************)
EXTENDS Discovery

CONSTANT Ahead           \* windows Gamma lists before they start

ASSUME AheadAssumption == Ahead \in Nat

VARIABLES
    begun,               \* window in which the present cycle started, or -1
    completed            \* latest window in which a cycle started and ended, or -1

punctualVars == <<vars, begun, completed>>

PunctualTypeOK == TypeOK /\ begun \in -1..MaxTime /\ completed \in -1..MaxTime

PunctualInit == Init /\ begun = -1 /\ completed = -1

Listed(slug) == slug <= Window + Ahead * Dur

Ends == worker # "idle" /\ worker' = "idle"

PunctualStart == StartCycle /\ begun' = Window /\ UNCHANGED completed

PunctualFetch ==
    /\ \/ FetchFound /\ Listed(Head(tasks))
       \/ FetchMissing /\ ~Listed(Head(tasks))
    /\ UNCHANGED <<begun, completed>>

PunctualStore ==
    /\ FetchesDone \/ Upsert(TRUE) \/ (\E ok \in BOOLEAN : MergeUpsert(ok))
    /\ IF Ends THEN begun' = -1 /\ completed' = IF begun = Window THEN begun ELSE completed
               ELSE UNCHANGED <<begun, completed>>

PunctualRestart == Restart /\ begun' = -1 /\ UNCHANGED completed

(* A window is not left before a cycle has run in it. *)
PunctualTick ==
    /\ Tick
    /\ (now + 1) % Dur = 0 => completed = Window
    /\ UNCHANGED <<begun, completed>>

PunctualNext ==
    \/ PunctualStart \/ PunctualFetch \/ PunctualStore \/ PunctualRestart
    \/ PunctualTick

PunctualSpec == PunctualInit /\ [][PunctualNext]_punctualVars

-----------------------------------------------------------------------------
(* The market of every window but the first is stored before the window     *)
(* starts, so that the collector finds its tokens: the anchor never runs    *)
(* past a window that Gamma was still to list, and never goes stale.        *)
CurrentWindowKnown == now >= Dur => Window \in stored
=============================================================================
