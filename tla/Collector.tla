------------------------------ MODULE Collector ------------------------------
(***************************************************************************)
(* The order-book collector (internal/collector/collector.go): three       *)
(* goroutines that share a token cache, a bounded snapshot buffer and the  *)
(* per-token hash of the last book kept.                                   *)
(*                                                                         *)
(*   tokenRefreshLoop   replaces the cached token list                     *)
(*   fetchLoop          CLOB books -> snapshots -> buffer                   *)
(*   flushLoop          buffer -> duplicate filter -> book_snapshots        *)
(*                                                                         *)
(* Timers are abstract: a timer or ticker may fire whenever its goroutine  *)
(* waits for it.  A Go select with two ready cases takes either, so a tick *)
(* may still win after the context is cancelled.                           *)
(*                                                                         *)
(* Operators named Bug... are plausible mistakes in the operator they      *)
(* precede.  No action uses them: the mutation runs substitute them to     *)
(* show that each property notices such a mistake.                         *)
(***************************************************************************)
EXTENDS Integers, Sequences

CONSTANTS
    Tokens,          \* CLOB token ids
    TokenLists,      \* the lists GetActiveMarketTokens may return
    Hashes,          \* non-empty book hashes the CLOB API may return
    NoHash,          \* BookHash = nil: the response carried no hash
    Stamps,          \* timestamps the CLOB API may return
    NoStamp,         \* TimestampAPI = nil: missing or not a number
    CLOBBatchSize,   \* cfg.CLOBBatchSize, any integer
    BufferMaxRows,   \* cfg.CollectorBufferMaxRows
    MaxSnapshots     \* bound on the snapshots built in a behaviour

ASSUME CollectorAssumption ==
    /\ TokenLists \subseteq Seq(Tokens)
    /\ NoHash \notin Hashes
    /\ NoStamp \notin Stamps
    /\ CLOBBatchSize \in Int
    /\ BufferMaxRows \in Nat
    /\ MaxSnapshots \in Nat

VARIABLES
    cancelled,       \* ctx.Done() is closed
    refresher,       \* tokenRefreshLoop: "running", "stopped"
    cachedTokens,    \* c.cachedTokens
    fetcher,         \* fetchLoop: "idle", "request", "append", "stopped"
    tokens,          \* fetchAndBuffer's list, read from the cache once a cycle
    pos,             \* first index of its current batch (i + 1)
    snaps,           \* its parsed snapshots, not yet in the buffer
    buffer,          \* c.buffer
    flusher,         \* flushLoop: "idle", "filter", "insert", "stopped"
    finalFlush,      \* the flush in progress is the deferred one at shutdown
    toFlush,         \* flushBuffer: swapped-out snapshots still to be filtered
    filtered,        \* flushBuffer: snapshots kept for the insert
    lastBookHash,    \* c.lastBookHash, NoHash where the map has no entry
    table,           \* rows of book_snapshots
    \* History, read by no action:
    built,           \* snapshots built so far: the id of the latest
    handed,          \* every snapshot the filter kept, in order
    skipped,         \* snapshots the filter dropped as duplicates
    dropped          \* snapshots refused by the full buffer

fetchVars == <<fetcher, tokens, pos, snaps, built, dropped>>
flushVars == <<flusher, finalFlush, toFlush, filtered, lastBookHash, table,
               handed, skipped>>
cacheVars == <<refresher, cachedTokens>>
vars == <<cancelled, cacheVars, buffer, fetchVars, flushVars>>

(* A BookSnapshot; id is its place in the order of construction. *)
Snapshot == [id : 1..MaxSnapshots, token : Tokens,
             hash : Hashes \cup {NoHash}, stamp : Stamps \cup {NoStamp}]

TypeOK ==
    /\ cancelled \in BOOLEAN
    /\ refresher \in {"running", "stopped"}
    /\ cachedTokens \in Seq(Tokens)
    /\ fetcher \in {"idle", "request", "append", "stopped"}
    /\ tokens \in Seq(Tokens)
    /\ pos \in Nat \ {0}
    /\ fetcher = "request" => pos <= Len(tokens)
    /\ snaps \in Seq(Snapshot)
    /\ buffer \in Seq(Snapshot)
    /\ flusher \in {"idle", "filter", "insert", "stopped"}
    /\ finalFlush \in BOOLEAN
    /\ toFlush \in Seq(Snapshot)
    /\ filtered \in Seq(Snapshot)
    /\ lastBookHash \in [Tokens -> Hashes \cup {NoHash}]
    /\ table \subseteq Snapshot
    /\ built \in 0..MaxSnapshots
    /\ handed \in Seq(Snapshot)
    /\ skipped \subseteq Snapshot
    /\ dropped \subseteq Snapshot

Init ==
    /\ cancelled = FALSE
    /\ refresher = "running" /\ cachedTokens = <<>>
    /\ fetcher = "idle" /\ tokens = <<>> /\ pos = 1 /\ snaps = <<>>
    /\ buffer = <<>>
    /\ flusher = "idle" /\ finalFlush = FALSE
    /\ toFlush = <<>> /\ filtered = <<>>
    /\ lastBookHash = [t \in Tokens |-> NoHash]
    /\ table = {}
    /\ built = 0 /\ handed = <<>> /\ skipped = {} /\ dropped = {}

(* main cancels the context when the shutdown signal arrives. *)
Cancel ==
    /\ ~cancelled
    /\ cancelled' = TRUE
    /\ UNCHANGED <<cacheVars, buffer, fetchVars, flushVars>>

-----------------------------------------------------------------------------
(* tokenRefreshLoop *)

(* refreshTokens: a failed query or an empty result keeps the old list, so  *)
(* only a non-empty one changes the state; a cancelled query always fails.  *)
RefreshTokens ==
    /\ refresher = "running" /\ ~cancelled
    /\ \E list \in TokenLists : list # <<>> /\ cachedTokens' = list
    /\ UNCHANGED <<cancelled, refresher, buffer, fetchVars, flushVars>>

RefresherStop ==
    /\ refresher = "running" /\ cancelled
    /\ refresher' = "stopped"
    /\ UNCHANGED <<cancelled, cachedTokens, buffer, fetchVars, flushVars>>

-----------------------------------------------------------------------------
(* fetchLoop *)

(* Batches outside 1..50 tokens are replaced by the API's limit of 50. *)
BatchSize == IF CLOBBatchSize <= 0 \/ CLOBBatchSize > 50 THEN 50 ELSE CLOBBatchSize

Batch == LET end == pos + BatchSize - 1
         IN SubSeq(tokens, pos, IF end > Len(tokens) THEN Len(tokens) ELSE end)

(* fetchAndBuffer returns: its locals are gone. *)
EndCycle == fetcher' = "idle" /\ tokens' = <<>> /\ pos' = 1

(* The timer fires and the cycle reads the cache; with no cached token      *)
(* fetchAndBuffer returns at once and nothing changes.                      *)
FetchTick ==
    /\ fetcher = "idle" /\ cachedTokens # <<>>
    /\ fetcher' = "request" /\ tokens' = cachedTokens /\ pos' = 1
    /\ UNCHANGED <<cancelled, cacheVars, buffer, flushVars, snaps, built, dropped>>

FetcherStop ==
    /\ fetcher = "idle" /\ cancelled
    /\ fetcher' = "stopped"
    /\ UNCHANGED <<cancelled, cacheVars, buffer, flushVars, tokens, pos, snaps,
                   built, dropped>>

(* FetchBooksBatch fails (rate limiter interrupted, transport error, status *)
(* other than 200, undecodable body): the whole cycle is abandoned.         *)
BugFetchRetry == fetcher = "request" /\ UNCHANGED vars
FetchFail ==
    /\ fetcher = "request"
    /\ EndCycle
    /\ UNCHANGED <<cancelled, cacheVars, buffer, flushVars, snaps, built, dropped>>

(* The loop's i += batchSize: on to the next batch, or the cycle is over. *)
BugNextBatchChecksLate ==
    IF pos > Len(tokens)
    THEN EndCycle
    ELSE fetcher' = "request" /\ pos' = pos + BatchSize /\ UNCHANGED tokens
NextBatch ==
    IF pos + BatchSize > Len(tokens)
    THEN EndCycle
    ELSE fetcher' = "request" /\ pos' = pos + BatchSize /\ UNCHANGED tokens

(* The positions of a batch of n tokens a response answers, in order. *)
Answered(n) ==
    {p \in UNION {[1..m -> 1..n] : m \in 0..n} :
        \A a, b \in DOMAIN p : a < b => p[a] < p[b]}

(* A response arrives and is parsed into one snapshot per token it answers. *)
(* A request made under a cancelled context fails, so it needs ~cancelled.  *)
FetchBooks ==
    /\ fetcher = "request" /\ ~cancelled
    /\ \E p \in Answered(Len(Batch)) :
       \E hash \in [DOMAIN p -> Hashes \cup {NoHash}],
          stamp \in [DOMAIN p -> Stamps \cup {NoStamp}] :
          /\ built + Len(p) <= MaxSnapshots
          /\ built' = built + Len(p)
          /\ snaps' = [k \in 1..Len(p) |->
                          [id |-> built + k, token |-> Batch[p[k]],
                           hash |-> hash[k], stamp |-> stamp[k]]]
          /\ IF p = <<>> THEN NextBatch
                         ELSE fetcher' = "append" /\ UNCHANGED <<tokens, pos>>
    /\ UNCHANGED <<cancelled, cacheVars, buffer, flushVars, dropped>>

(* The hard limit; checking only the rows already there would overshoot it. *)
BugHasRoomIgnoringBatch == Len(buffer) < BufferMaxRows
HasRoom == Len(buffer) + Len(snaps) <= BufferMaxRows

(* Under bufferMu: the snapshots of one batch enter the buffer together ... *)
BufferAppend ==
    /\ fetcher = "append" /\ HasRoom
    /\ buffer' = buffer \o snaps
    /\ snaps' = <<>>
    /\ NextBatch
    /\ UNCHANGED <<cancelled, cacheVars, flushVars, built, dropped>>

(* ... or are dropped together, and the cycle is abandoned. *)
BufferFull ==
    /\ fetcher = "append" /\ ~HasRoom
    /\ dropped' = dropped \cup {snaps[k] : k \in DOMAIN snaps}
    /\ snaps' = <<>>
    /\ EndCycle
    /\ UNCHANGED <<cancelled, cacheVars, buffer, flushVars, built>>

-----------------------------------------------------------------------------
(* flushLoop *)

(* flushBuffer's swap under bufferMu. *)
BugSwapWithoutReset ==
    toFlush' = buffer /\ flusher' = "filter" /\ UNCHANGED buffer
BugSwapNewest ==
    /\ toFlush' = <<buffer[Len(buffer)]>>
    /\ buffer' = SubSeq(buffer, 1, Len(buffer) - 1)
    /\ flusher' = "filter"
Swap ==
    /\ toFlush' = buffer
    /\ buffer' = <<>>
    /\ flusher' = "filter"

(* The ticker fires; flushBuffer returns at once from an empty buffer. *)
BugFlushOnlyWhenFull ==
    /\ flusher = "idle" /\ Len(buffer) = BufferMaxRows
    /\ Swap
    /\ UNCHANGED <<cancelled, cacheVars, fetchVars, finalFlush, filtered,
                   lastBookHash, table, handed, skipped>>
FlushTick ==
    /\ flusher = "idle" /\ buffer # <<>>
    /\ Swap
    /\ UNCHANGED <<cancelled, cacheVars, fetchVars, finalFlush, filtered,
                   lastBookHash, table, handed, skipped>>

(* ctx.Done(): the loop returns and its deferred function flushes once more. *)
BugFlusherStopAtOnce ==
    /\ flusher = "idle" /\ cancelled
    /\ flusher' = "stopped"
    /\ UNCHANGED <<cancelled, cacheVars, buffer, fetchVars, finalFlush, toFlush,
                   filtered, lastBookHash, table, handed, skipped>>
FlusherStop ==
    /\ flusher = "idle" /\ cancelled
    /\ finalFlush' = TRUE
    /\ IF buffer = <<>>
       THEN flusher' = "stopped" /\ UNCHANGED <<toFlush, buffer>>
       ELSE Swap
    /\ UNCHANGED <<cancelled, cacheVars, fetchVars, filtered, lastBookHash,
                   table, handed, skipped>>

(* flushBuffer returns, to the loop or, after the final flush, for good. *)
FlushReturn ==
    /\ flusher' = IF finalFlush THEN "stopped" ELSE "idle"
    /\ filtered' = <<>>

BugIsKnownHash(s) ==
    \E k \in DOMAIN handed :
        handed[k].token = s.token /\ handed[k].hash = s.hash /\ s.hash # NoHash
IsDuplicate(s) == s.hash # NoHash /\ lastBookHash[s.token] = s.hash

(* One iteration of the filter loop under lastHashMu. *)
FilterSkip ==
    /\ flusher = "filter" /\ toFlush # <<>>
    /\ IsDuplicate(Head(toFlush))
    /\ skipped' = skipped \cup {Head(toFlush)}
    /\ toFlush' = Tail(toFlush)
    /\ UNCHANGED <<cancelled, cacheVars, buffer, fetchVars, flusher, finalFlush,
                   filtered, lastBookHash, table, handed>>

BugRememberFirstHash(s) ==
    IF lastBookHash[s.token] # NoHash THEN lastBookHash
    ELSE [lastBookHash EXCEPT ![s.token] = s.hash]
RememberHash(s) ==
    IF s.hash = NoHash THEN lastBookHash
                       ELSE [lastBookHash EXCEPT ![s.token] = s.hash]

FilterKeep ==
    /\ flusher = "filter" /\ toFlush # <<>>
    /\ ~IsDuplicate(Head(toFlush))
    /\ lastBookHash' = RememberHash(Head(toFlush))
    /\ filtered' = Append(filtered, Head(toFlush))
    /\ handed' = Append(handed, Head(toFlush))
    /\ toFlush' = Tail(toFlush)
    /\ UNCHANGED <<cancelled, cacheVars, buffer, fetchVars, flusher, finalFlush,
                   table, skipped>>

BugFilterLoopOverEarly == Len(toFlush) <= 1
FilterLoopOver == toFlush = <<>>

(* Nothing is inserted when every row was a duplicate. *)
FilterDone ==
    /\ flusher = "filter" /\ FilterLoopOver
    /\ IF filtered = <<>> THEN FlushReturn
                          ELSE flusher' = "insert" /\ UNCHANGED filtered
    /\ UNCHANGED <<cancelled, cacheVars, buffer, fetchVars, finalFlush, toFlush,
                   lastBookHash, table, handed, skipped>>

(* ON CONFLICT DO NOTHING against the unique (token_id, timestamp_api) index. *)
SameKey(r, s) == r.token = s.token /\ r.stamp = s.stamp /\ s.stamp # NoStamp

NewRows(rows) ==
    {rows[i] : i \in {k \in DOMAIN rows :
        /\ \A r \in table : ~SameKey(r, rows[k])
        /\ \A j \in 1..(k - 1) : ~SameKey(rows[j], rows[k])}}

(* InsertBookSnapshotsBatch: one pgx batch is one implicit transaction.     *)
(* flushBuffer does the same whether the acknowledgement of a committed     *)
(* batch arrives or is lost, so both are this action.  A query sent under a *)
(* cancelled context fails; the final flush has a context of its own.       *)
InsertCommit ==
    /\ flusher = "insert" /\ (~cancelled \/ finalFlush)
    /\ table' = table \cup NewRows(filtered)
    /\ FlushReturn
    /\ UNCHANGED <<cancelled, cacheVars, buffer, fetchVars, finalFlush, toFlush,
                   lastBookHash, handed, skipped>>

(* The insert fails before its commit: the rows are gone. *)
InsertFail ==
    /\ flusher = "insert"
    /\ FlushReturn
    /\ UNCHANGED <<cancelled, cacheVars, buffer, fetchVars, finalFlush, toFlush,
                   lastBookHash, table, handed, skipped>>

-----------------------------------------------------------------------------
Stopped == refresher = "stopped" /\ fetcher = "stopped" /\ flusher = "stopped"

(* All three goroutines returned: c.wg.Wait() returns. *)
Terminated == Stopped /\ UNCHANGED vars

Fetch == FetchTick \/ FetchFail \/ FetchBooks \/ BufferAppend \/ BufferFull
Filter == FilterSkip \/ FilterKeep \/ FilterDone
Insert == InsertCommit \/ InsertFail

Next ==
    \/ Cancel
    \/ RefreshTokens \/ RefresherStop
    \/ Fetch \/ FetcherStop
    \/ FlushTick \/ FlusherStop \/ Filter \/ Insert
    \/ Terminated

Spec == Init /\ [][Next]_vars

-----------------------------------------------------------------------------
(* Properties *)

Increasing(s) == \A i, j \in DOMAIN s : i < j => s[i].id < s[j].id

(* The snapshots the filter has not seen yet, and those it kept before them. *)
Waiting == toFlush \o buffer \o snaps
Pipeline == handed \o Waiting

Ids(S) == {s.id : s \in S}
Elements(s) == {s[i] : i \in DOMAIN s}

(* The buffer's hard limit holds although two goroutines change it: the     *)
(* fetcher never appends past COLLECTOR_BUFFER_MAX_ROWS.                    *)
BufferBounded == Len(buffer) <= BufferMaxRows

(* Snapshots leave memory in the order they were observed, whatever the     *)
(* interleaving of appends, swaps and the final flush.                      *)
PipelineOrdered == Increasing(Pipeline)

(* Every snapshot is in exactly one place: on its way, kept by the filter,  *)
(* skipped as a duplicate, or dropped by the full buffer.                   *)
EverySnapshotAccounted ==
    /\ Ids(Elements(Pipeline)) \cup Ids(skipped) \cup Ids(dropped) = 1..built
    /\ Ids(Elements(Pipeline)) \cap (Ids(skipped) \cup Ids(dropped)) = {}
    /\ Ids(skipped) \cap Ids(dropped) = {}

(* A snapshot of token t with a hash was kept between the ids lo and hi. *)
KeptBetween(t, lo, hi) ==
    \E k \in DOMAIN handed :
        /\ handed[k].token = t /\ handed[k].hash # NoHash
        /\ lo < handed[k].id /\ handed[k].id < hi

(* "prevents DB bloat": of two kept snapshots of a token with the same hash *)
(* one with another hash was kept between them, also across flushes.        *)
NoRepeatedHash ==
    \A i, j \in DOMAIN handed :
        /\ i < j /\ handed[i].token = handed[j].token
        /\ handed[i].hash = handed[j].hash /\ handed[i].hash # NoHash
        => \E k \in (i + 1)..(j - 1) :
              /\ handed[k].token = handed[i].token
              /\ handed[k].hash \notin {NoHash, handed[i].hash}

(* "without losing legitimate returns to a previous hash": a snapshot is    *)
(* skipped only if the latest one kept for its token has its hash.          *)
SkipJustified ==
    \A s \in skipped :
        \E i \in DOMAIN handed :
            /\ handed[i].token = s.token /\ handed[i].hash = s.hash
            /\ handed[i].id < s.id
            /\ ~KeptBetween(s.token, handed[i].id, s.id)

(* Rows are inserted in the order the books were observed: a batch never    *)
(* adds a row that is older than one already in the table.                  *)
InsertedInOrder ==
    [][\A new \in table' \ table, old \in table : old.id < new.id]_vars

(* What the filter's comments promise of lastBookHash, "last inserted book  *)
(* hash" and "exact duplicate of last inserted state": the state for which  *)
(* a snapshot is skipped is in the table, or in the insert being prepared.  *)
SkippedStateIsInserted ==
    flusher = "filter" /\ toFlush # <<>> /\ IsDuplicate(Head(toFlush)) =>
        \E r \in table \cup Elements(filtered) :
            r.token = Head(toFlush).token /\ r.hash = Head(toFlush).hash

(* "Do one final flush on shutdown": once every goroutine has returned no   *)
(* snapshot is left behind in the buffer.                                   *)
NothingLeftAtShutdown == Stopped => buffer = <<>>

-----------------------------------------------------------------------------
(* The abstract recorder the collector implements. *)
Recorder == INSTANCE BookRecorder WITH
    observed <- built,
    held <- Elements(filtered) \cup Elements(toFlush)
            \cup Elements(buffer) \cup Elements(snaps),
    stored <- table

(* The collector records books as BookRecorder promises. *)
RecorderSpec == Recorder!Spec
=============================================================================
