---------------------------- MODULE MarketRefresh ----------------------------
(***************************************************************************)
(* The rows of new_markets under both workers of the scanner               *)
(* (internal/scanner/scanner.go, internal/db/postgres.go).  Discovery      *)
(* inserts markets, the refresh worker asks Gamma again for the rows that  *)
(* need it, oldest first and at most RefreshLimit of them.  Both upsert    *)
(* what they found twice, the second time with CLOB data, so each holds    *)
(* answers that age while the other commits.  An upsert is a transaction;  *)
(* its rows carry the time it began, whenever it commits.                  *)
(*                                                                         *)
(* Gamma is external: a market goes through the stages of Life and may be  *)
(* taken off the list.  Of a row, the status and the token ids are kept.   *)
(* Every market has a readable start date: discovery asks for markets that *)
(* are not stored (Discovery, AsksOnlyForNew), any set of them here.       *)
(*                                                                         *)
(* Operators named Bug... are mistakes the mutation runs put in place of   *)
(* the operator they precede.                                              *)
(***************************************************************************)
EXTENDS Integers, Sequences, FiniteSets, FiniteSetsExt, Functions

CONSTANTS
    Markets,             \* slugs
    Life,                \* the flags Gamma gives a market, stage after stage
    TokenAnswers,        \* what Gamma may say of the token ids
    Delisted,            \* markets Gamma may stop answering for
    Refused,             \* markets whose row violates a constraint of the
                         \* table while they have this status
    RefreshLimit,        \* cfg.RefreshLimit
    MaxFaults            \* bound on crashes, failed fetches, lost commits

Flags == [closed : BOOLEAN, active : BOOLEAN, ready : BOOLEAN, funded : BOOLEAN]

Statuses == {"upcoming", "funded", "active", "closed"}

(* A token id is NULL, the empty string or an id. *)
TokenField == {"none", "blank", "ids"}

Workers == {"discovery", "refresh"}

ASSUME MarketRefreshAssumption ==
    /\ IsFiniteSet(Markets) /\ Markets \cap Workers = {}
    /\ Life \in Seq(Flags)
    /\ TokenAnswers \subseteq TokenField
    /\ Delisted \subseteq Markets /\ Refused \subseteq Markets \X Statuses
    /\ RefreshLimit \in Nat \ {0} /\ MaxFaults \in Nat

VARIABLES
    gamma,               \* stage each market has reached, 0 before it is listed
    gone,                \* markets Gamma answers 404 for from now on
    row,                 \* new_markets: the stored markets and their rows
    older,               \* the order of updated_at and of the times at which
                         \* open transactions began: how many are lower
    aged,                \* those before the refresh cutoff
    worker,              \* where each worker is
    todo,                \* markets a worker has still to ask for, and their
                         \* token ids as they were read with the selection
    found,               \* answers it holds
    faults               \* faults so far

workerVars == <<worker, todo, found>>
vars == <<gamma, gone, row, older, aged, workerVars, faults>>

Stored == DOMAIN row

(* Workers whose transaction is open. *)
Writing == {w \in Workers : worker[w] \in {"upsert", "merge"}}

(* Functions from some of the markets to T. *)
Partial(T) == UNION {[S -> T] : S \in SUBSET Markets}
Row == [status : Statuses, tokens : TokenField]

(* Only the order of times matters: each is how many lower ones there are.  *)
Ranks(time) ==
    [x \in DOMAIN time |-> Cardinality({y \in DOMAIN time : time[y] < time[x]})]

MarketTypeOK ==
    /\ gamma \in [Markets -> 0..Len(Life)]
    /\ gone \subseteq Delisted
    /\ row \in Partial(Row)
    /\ DOMAIN older = Stored \cup Writing /\ older = Ranks(older)
    /\ aged \subseteq DOMAIN older
    /\ \A x \in aged, y \in DOMAIN older : older[y] <= older[x] => y \in aged
    /\ worker \in [Workers -> {"idle", "fetch", "upsert", "clob", "merge"}]
    /\ todo \in [Workers -> Partial(TokenField)]
    /\ found \in [Workers -> Partial(Row)]
    /\ faults \in 0..MaxFaults

Init ==
    /\ gamma = [m \in Markets |-> 0]
    /\ gone = {}
    /\ row = <<>> /\ older = <<>> /\ aged = {}
    /\ worker = [w \in Workers |-> "idle"]
    /\ todo = [w \in Workers |-> <<>>] /\ found = [w \in Workers |-> <<>>]
    /\ faults = 0

-----------------------------------------------------------------------------
(* Gamma and time. *)

Advance(m) ==
    /\ m \notin gone /\ gamma[m] < Len(Life)
    /\ gamma' = [gamma EXCEPT ![m] = @ + 1]
    /\ UNCHANGED <<gone, row, older, aged, workerVars, faults>>

Delist(m) ==
    /\ m \notin gone /\ gamma[m] > 0
    /\ gone' = gone \cup {m}
    /\ UNCHANGED <<gamma, row, older, aged, workerVars, faults>>

(* The next oldest times pass the cutoff. *)
Age ==
    /\ aged # DOMAIN older
    /\ aged' = {x \in DOMAIN older :
                   older[x] <= Min({older[y] : y \in DOMAIN older \ aged})}
    /\ UNCHANGED <<gamma, gone, row, older, workerVars, faults>>

Fault == faults < MaxFaults /\ faults' = faults + 1

-----------------------------------------------------------------------------
(* mapGammaToMarket: the status of a market with these flags. *)
BugStatus(flags) ==
    CASE flags.closed                            -> "closed"
      [] ~flags.closed /\ flags.funded           -> ""
      [] ~flags.closed /\ ~flags.funded          -> "upcoming"
Status(flags) ==
    CASE flags.closed                                      -> "closed"
      [] ~flags.closed /\ flags.funded
           /\ flags.active /\ flags.ready                  -> "active"
      [] ~flags.closed /\ flags.funded
           /\ ~(flags.active /\ flags.ready)               -> "funded"
      [] ~flags.closed /\ ~flags.funded                    -> "upcoming"

(* Gamma has a market to give. *)
Answers(m) == gamma[m] > 0 /\ m \notin gone

(* runDiscovery: the slugs it generates. *)
BugUnstored == Markets
Unstored == Markets \ Stored

DiscoveryStart ==
    /\ worker["discovery"] = "idle"
    /\ \E S \in SUBSET Unstored \ {{}} :
           todo' = [todo EXCEPT !["discovery"] = [m \in S |-> "none"]]
    /\ worker' = [worker EXCEPT !["discovery"] = "fetch"]
    /\ UNCHANGED <<gamma, gone, row, older, aged, found, faults>>

(* GetMarketsNeedingRefresh. *)
BugNeedsRefresh(m) == row[m].status = "upcoming"
NeedsRefresh(m) == row[m].status = "upcoming" \/ m \in aged

BugBefore(m, r) == older[m] >= older[r]
Before(m, r) == older[m] <= older[r]

RefreshStart ==
    /\ worker["refresh"] = "idle"
    /\ LET needing == {m \in Stored : NeedsRefresh(m)}
           limit   == Min({RefreshLimit, Cardinality(needing)})
       IN  /\ needing # {}
           /\ \E S \in kSubset(limit, needing) :
                  /\ \A m \in S, r \in needing \ S : Before(m, r)
                  /\ todo' = [todo EXCEPT !["refresh"] = [m \in S |-> row[m].tokens]]
    /\ worker' = [worker EXCEPT !["refresh"] = "fetch"]
    /\ UNCHANGED <<gamma, gone, row, older, aged, found, faults>>

(* "Preserve token IDs if Gamma returned them empty". *)
BugPreserved(read, answer) == answer
Preserved(read, answer) == IF answer = "ids" THEN answer ELSE read

Dequeue(w, m) == todo' = [todo EXCEPT ![w] = Restrict(@, DOMAIN @ \ {m})]
Keep(w, m, answer) ==
    found' = [found EXCEPT ![w] =
        [r \in DOMAIN @ \cup {m} |-> IF r = m THEN answer ELSE @[r]]]

(* FetchMarketBySlug answers 200: the market is mapped and kept. *)
FetchFound(w) ==
    /\ worker[w] = "fetch"
    /\ \E m \in DOMAIN todo[w], answer \in TokenAnswers :
           /\ Answers(m)
           /\ Dequeue(w, m)
           /\ Keep(w, m, [status |-> Status(Life[gamma[m]]),
                             tokens |-> IF w = "refresh"
                                        THEN Preserved(todo[w][m], answer)
                                        ELSE answer])
    /\ UNCHANGED <<gamma, gone, row, older, aged, worker, faults>>

(* 404, or any failure: the market is left out of this cycle. *)
FetchNothing(w) ==
    /\ worker[w] = "fetch"
    /\ \E m \in DOMAIN todo[w] :
           /\ IF Answers(m) THEN Fault ELSE UNCHANGED faults
           /\ Dequeue(w, m)
    /\ UNCHANGED <<gamma, gone, row, older, aged, worker, found>>

(* Begin: now() is this time for the whole transaction. *)
Begin(w) ==
    older' = [x \in DOMAIN older \cup {w} |->
                IF x = w THEN Cardinality(DOMAIN older) ELSE older[x]]

FetchesDone(w) ==
    /\ worker[w] = "fetch" /\ todo[w] = <<>>
    /\ IF found[w] = <<>>
       THEN worker' = [worker EXCEPT ![w] = "idle"] /\ UNCHANGED older
       ELSE worker' = [worker EXCEPT ![w] = "upsert"] /\ Begin(w)
    /\ UNCHANGED <<gamma, gone, row, aged, todo, found, faults>>

-----------------------------------------------------------------------------
(* upsertBySlugTx: a row is inserted, or its columns overwritten by those   *)
(* that are not NULL. *)
Upserted(m, new) ==
    IF m \in Stored /\ new.tokens = "none"
    THEN [new EXCEPT !.tokens = row[m].tokens]
    ELSE new

(* The transaction of w ends: the rows it has written get the time at which *)
(* it began, also where that is before the time they had.                   *)
EndTransaction(w, written) ==
    LET timed(x) == IF x \in written THEN w ELSE x
        left     == (DOMAIN older \ {w}) \cup written
    IN  /\ older' = Ranks([x \in left |-> older[timed(x)]])
        /\ aged' = {x \in left : timed(x) \in aged}

Committed(w) ==
    LET batch == found[w]
    IN  /\ row' = [m \in Stored \cup DOMAIN batch |->
               IF m \in DOMAIN batch THEN Upserted(m, batch[m]) ELSE row[m]]
        /\ EndTransaction(w, DOMAIN batch)

RolledBack(w) == EndTransaction(w, {}) /\ UNCHANGED row

(* UpsertMarketsBatch: a row the table refuses aborts the transaction, and  *)
(* nothing of the batch is stored.  Otherwise it commits, or it is lost     *)
(* with its connection or to a deadlock with the other worker's.  The       *)
(* workers only log that.                                                   *)
IsRefused(batch) == \E m \in DOMAIN batch : <<m, batch[m].status>> \in Refused

UpsertMarketsBatch(w) ==
    \/ ~IsRefused(found[w]) /\ Committed(w) /\ UNCHANGED faults
    \/ IsRefused(found[w]) /\ RolledBack(w) /\ UNCHANGED faults
    \/ ~IsRefused(found[w]) /\ RolledBack(w) /\ Fault

(* The first upsert.  CLOB data is fetched when there is a token id to ask  *)
(* for; the cycle ends otherwise.                                           *)
HasTokens(batch) == \E m \in DOMAIN batch : batch[m].tokens = "ids"

Upsert(w) ==
    /\ worker[w] = "upsert"
    /\ UpsertMarketsBatch(w)
    /\ IF HasTokens(found[w])
       THEN worker' = [worker EXCEPT ![w] = "clob"] /\ UNCHANGED found
       ELSE /\ worker' = [worker EXCEPT ![w] = "idle"]
            /\ found' = [found EXCEPT ![w] = <<>>]
    /\ UNCHANGED <<gamma, gone, todo>>

(* fetchAndMergeCLOBData: whatever books came, prices and hashes are put    *)
(* into the same answers and these are upserted again.                      *)
BooksMerged(w) ==
    /\ worker[w] = "clob"
    /\ worker' = [worker EXCEPT ![w] = "merge"] /\ Begin(w)
    /\ UNCHANGED <<gamma, gone, row, aged, todo, found, faults>>

MergeUpsert(w) ==
    /\ worker[w] = "merge"
    /\ UpsertMarketsBatch(w)
    /\ worker' = [worker EXCEPT ![w] = "idle"]
    /\ found' = [found EXCEPT ![w] = <<>>]
    /\ UNCHANGED <<gamma, gone, todo>>

(* The process is stopped and started again: what the workers hold is lost, *)
(* open transactions included. *)
Restart ==
    /\ \E w \in Workers : worker[w] # "idle"
    /\ Fault
    /\ worker' = [w \in Workers |-> "idle"]
    /\ todo' = [w \in Workers |-> <<>>] /\ found' = [w \in Workers |-> <<>>]
    /\ older' = Ranks(Restrict(older, Stored)) /\ aged' = aged \cap Stored
    /\ UNCHANGED <<gamma, gone, row>>

Cycle(w) ==
    \/ FetchFound(w) \/ FetchNothing(w) \/ FetchesDone(w)
    \/ Upsert(w) \/ BooksMerged(w) \/ MergeUpsert(w)

Next ==
    \/ \E m \in Markets : Advance(m)
    \/ \E m \in Delisted : Delist(m)
    \/ Age
    \/ DiscoveryStart \/ RefreshStart
    \/ \E w \in Workers : Cycle(w)
    \/ Restart

(* Time passes, tickers fire, and every request and transaction ends, if    *)
(* only by a timeout.  Nothing is assumed of Gamma but that faults end.     *)
Spec ==
    /\ Init /\ [][Next]_vars
    /\ WF_vars(Age)
    /\ WF_vars(DiscoveryStart) /\ WF_vars(RefreshStart)
    /\ WF_vars(Cycle("discovery")) /\ WF_vars(Cycle("refresh"))

-----------------------------------------------------------------------------
Rank(status) == CHOOSE i \in 0..3 :
    status = <<"upcoming", "funded", "active", "closed">>[i + 1]

(* The commit of data that another worker may have replaced meanwhile. *)
DiscoveryMerges(m) ==
    worker["discovery"] = "merge" /\ worker'["discovery"] = "idle"
        /\ m \in DOMAIN found["discovery"]

(* A market's status never goes back in the table, although two workers     *)
(* write it from answers they got earlier and the last commit wins.  The    *)
(* one exception is the second upsert of the cycle that discovered the      *)
(* market: it may repeat an answer older than the one the refresh worker    *)
(* has stored in between.                                                   *)
OnlyDiscoveryTurnsBack ==
    [][\A m \in Stored :
           Rank(row'[m].status) < Rank(row[m].status) => DiscoveryMerges(m)]_vars

(* "Preserve token IDs if Gamma returned them empty": token ids once stored *)
(* stay, with the same exception.  The collector would lose the market.     *)
TokensKept ==
    [][\A m \in Stored :
           row[m].tokens = "ids" /\ row'[m].tokens # "ids" => DiscoveryMerges(m)]_vars

(* The row comes to show the status Gamma gives its market, and stays so,   *)
(* unless the market is no longer listed.                                   *)
Settles(m) == <>[](m \in gone \/ m \notin Stored
                     \/ row[m].status = Status(Life[gamma[m]]))

(* The rows that may stay at the head of the selection for good are fewer   *)
(* than its limit, and nothing the refresh worker is given is refused.      *)
RefreshCanProceed ==
    /\ Cardinality(gone \cap Stored) < RefreshLimit
    /\ \A m \in Stored \ gone : <<m, Status(Life[gamma[m]])>> \notin Refused

(* Whatever faults, overlapping and stale commits, refused batches and      *)
(* restarts there were, every row comes to show its market's status, when   *)
(* in the end fewer than RefreshLimit of the stored markets are delisted    *)
(* and no listed one is refused: the oldest rows go first, so every cycle   *)
(* asks for a listed one, and makes it the newest.                          *)
StatusConverges == <>[]RefreshCanProceed => \A m \in Markets : Settles(m)

(* "refreshWorker keeps existing markets up to date", without that proviso. *)
KeptUpToDate == \A m \in Markets : Settles(m)
=============================================================================
