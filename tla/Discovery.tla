------------------------------ MODULE Discovery ------------------------------
(***************************************************************************)
(* The discovery worker (internal/scanner/scanner.go) for one symbol and   *)
(* interval.  A cycle reads the latest stored slug, generates the slugs    *)
(* that should follow it, asks Gamma for each of them and upserts those it *)
(* found, twice: as Gamma described them and again with CLOB data.         *)
(*                                                                         *)
(* Gamma and the database are external: Gamma answers anything, and the    *)
(* database may lose a transaction.  PunctualDiscovery restricts both to   *)
(* see what the worker guarantees when they behave.  The start date Gamma  *)
(* gives a market is taken to order markets as their windows are.          *)
(*                                                                         *)
(* Operators named Bug... are mistakes the mutation runs put in place of   *)
(* the operator they precede.                                              *)
(***************************************************************************)
EXTENDS Integers, Sequences, SlugGen

CONSTANTS
    Dur,                 \* length of a window, in ticks
    InitialSlugCount,    \* cfg.InitialSlugCount
    FutureSlugCount,     \* cfg.FutureSlugCount
    Undated,             \* slugs whose market has no readable start date
    Rejected,            \* slugs whose row violates a constraint of the table
    MaxTime,             \* bound on the clock
    MaxSlug              \* bound on the windows Gamma ever lists

ASSUME DiscoveryAssumption ==
    /\ Dur \in Nat \ {0}
    /\ InitialSlugCount \in Int /\ FutureSlugCount \in Int
    /\ Undated \subseteq Int /\ Rejected \subseteq Int
    /\ MaxTime \in Nat /\ MaxSlug \in Nat

VARIABLES
    now,                 \* wall clock
    worker,              \* "idle", "fetch", "upsert", "merge"
    tasks,               \* slugs still to be fetched in this cycle
    markets,             \* slugs found in this cycle
    stored,              \* slugs in new_markets
    \* History, read by no action of Next:
    missing,             \* slugs whose latest answer was 404
    failed,              \* slugs whose latest fetch failed otherwise
    restarted            \* window slugs were last generated from, or -1

history == <<missing, failed, restarted>>
vars == <<now, worker, tasks, markets, stored, history>>

TypeOK ==
    /\ now \in 0..MaxTime
    /\ worker \in {"idle", "fetch", "upsert", "merge"}
    /\ tasks \in Seq(Int)
    /\ markets \subseteq Int /\ stored \subseteq Int
    /\ missing \subseteq Int /\ failed \subseteq Int
    /\ restarted \in -1..MaxTime

Init ==
    /\ now = 0
    /\ worker = "idle" /\ tasks = <<>> /\ markets = {}
    /\ stored = {}
    /\ missing = {} /\ failed = {} /\ restarted = -1

Window == CurrentSlug(now, Dur)

-----------------------------------------------------------------------------
(* GetLatestSlugs: the stored slug with the latest start date. *)
Dated == stored \ Undated
LatestSlug == CHOOSE s \in Dated : \A r \in Dated : r <= s

(* The slugs of a cycle follow the latest one; without one, or when it is   *)
(* stale, they follow the current window.                                   *)
FromAnchor == Dated # {} /\ ~IsStale(LatestSlug, now, Dur, FutureSlugCount)

BugNextSlugs == [i \in 1..FutureSlugCount |-> LatestSlug + (i + 1) * Dur]
BugNextSlugsFromAnchor == [i \in 1..FutureSlugCount |-> LatestSlug + (i - 1) * Dur]
NextSlugs == GenerateNextSlugs(LatestSlug, Dur, FutureSlugCount)
InitialSlugs == GenerateInitialSlugs(now, Dur, InitialSlugCount)

(* The ticker fires, or the worker has just been started.  When the query   *)
(* of the latest slugs fails the cycle ends at once: nothing changes.       *)
StartCycle ==
    /\ worker = "idle"
    /\ worker' = "fetch"
    /\ IF FromAnchor
       THEN tasks' = NextSlugs /\ UNCHANGED restarted
       ELSE tasks' = InitialSlugs /\ restarted' = Window
    /\ UNCHANGED <<now, markets, stored, missing, failed>>

(* FetchMarketBySlug answers the next task: 200 ... *)
FetchFound ==
    /\ worker = "fetch" /\ tasks # <<>>
    /\ Head(tasks) <= MaxSlug
    /\ tasks' = Tail(tasks)
    /\ markets' = markets \cup {Head(tasks)}
    /\ missing' = missing \ {Head(tasks)} /\ failed' = failed \ {Head(tasks)}
    /\ UNCHANGED <<now, worker, stored, restarted>>

(* ... 404 ... *)
FetchMissing ==
    /\ worker = "fetch" /\ tasks # <<>>
    /\ tasks' = Tail(tasks)
    /\ missing' = missing \cup {Head(tasks)} /\ failed' = failed \ {Head(tasks)}
    /\ UNCHANGED <<now, worker, markets, stored, restarted>>

(* ... or a transport error, 429, another status or an unreadable body.     *)
FetchError ==
    /\ worker = "fetch" /\ tasks # <<>>
    /\ tasks' = Tail(tasks)
    /\ failed' = failed \cup {Head(tasks)} /\ missing' = missing \ {Head(tasks)}
    /\ UNCHANGED <<now, worker, markets, stored, restarted>>

EndCycle == worker' = "idle" /\ markets' = {}

FetchesDone ==
    /\ worker = "fetch" /\ tasks = <<>>
    /\ IF markets = {} THEN EndCycle
                       ELSE worker' = "upsert" /\ UNCHANGED markets
    /\ UNCHANGED <<now, tasks, stored, history>>

(* UpsertMarketsBatch: a statement that fails aborts the transaction, the   *)
(* ones after it fail too and Commit rolls back, so one refused market      *)
(* keeps the whole batch out; so does a connection lost before the commit.  *)
(* runDiscovery only logs the error.                                        *)
BugUpsertMarketsBatch(ok) ==
    stored' = IF ok THEN stored \cup {s \in markets : \A r \in markets : s >= r}
                    ELSE stored
UpsertMarketsBatch(ok) ==
    stored' = IF ok /\ markets \cap Rejected = {} THEN stored \cup markets
                                                 ELSE stored

(* After the first upsert the cycle goes on with the CLOB data, unless no   *)
(* market has a token id. *)
Upsert(ok) ==
    /\ worker = "upsert"
    /\ UpsertMarketsBatch(ok)
    /\ \/ worker' = "merge" /\ UNCHANGED markets
       \/ EndCycle
    /\ UNCHANGED <<now, tasks, history>>

(* fetchAndMergeCLOBData stores the same markets again. *)
MergeUpsert(ok) ==
    /\ worker = "merge"
    /\ UpsertMarketsBatch(ok)
    /\ EndCycle
    /\ UNCHANGED <<now, tasks, history>>

(* The process stops in the middle of a cycle, by a crash or because the    *)
(* context is cancelled, and is started again: the cycle is lost.           *)
Restart ==
    /\ worker # "idle"
    /\ worker' = "idle" /\ tasks' = <<>> /\ markets' = {}
    /\ UNCHANGED <<now, stored, history>>

Tick ==
    /\ now < MaxTime /\ now' = now + 1
    /\ UNCHANGED <<worker, tasks, markets, stored, history>>

Next ==
    \/ StartCycle
    \/ FetchFound \/ FetchMissing \/ FetchError \/ FetchesDone
    \/ \E ok \in BOOLEAN : Upsert(ok) \/ MergeUpsert(ok)
    \/ Restart
    \/ Tick

Spec == Init /\ [][Next]_vars

-----------------------------------------------------------------------------
(* A window the anchor has passed without storing it was asked for, and the *)
(* last answer was 404 or a failure.  Only windows that had already started *)
(* when slugs were last generated from the clock are never asked for.       *)
PassedOnlyIfUnanswered ==
    Dated # {} =>
        \A k \in 0..(LatestSlug \div Dur) :
            restarted < k * Dur /\ k * Dur \notin stored
                => k * Dur \in missing \cup failed

(* The worker asks only for windows it does not have: what it inserts never *)
(* overwrites a row the refresh worker keeps up to date, but for a row      *)
(* without a start date, which the anchor query does not see.               *)
AsksOnlyForNew ==
    worker = "fetch" =>
        \A i \in DOMAIN tasks : tasks[i] \in stored => tasks[i] \in Undated

CycleStarts == worker = "idle" /\ worker' = "fetch"

(* A cycle asks for some window that has yet to start, however long the     *)
(* process was down and however many cycles failed: an anchor the clock has *)
(* overtaken is given up in time, so discovery never trails the clock.      *)
AsksAhead == [][CycleStarts => \E i \in DOMAIN tasks' : tasks'[i] >= now]_vars

(* "Returns (nil, error) on transient errors (caller will retry)": a slug   *)
(* whose fetch failed and that has not started yet will be asked for again. *)
FailedIsRetried ==
    worker = "idle" /\ Dated # {} =>
        \A s \in failed \ stored : s > now => s > LatestSlug
=============================================================================
