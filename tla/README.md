# Verification of the Polymarket market fetcher

TLA+ modules, TLC configurations and TLAPS proofs for the Go program in this
repository: a background process that discovers crypto "up/down" markets through
the Gamma API, keeps them up to date in PostgreSQL, and records the order books of
the current ones through the CLOB API.

## 1. Inventory

One process (`main.go`), five long-running goroutines, one database, two HTTP APIs.

| Part | State it keeps | Operations | Interacts with |
|---|---|---|---|
| **Collector** `internal/collector` | token cache, snapshot buffer, last book hash per token; three goroutines | `tokenRefreshLoop`, `fetchLoop`/`fetchAndBuffer`, `flushLoop`/`flushBuffer` | CLOB client (own limiter), `book_snapshots`, `new_markets` through `GetActiveMarketTokens` |
| **Rate limiter** `internal/api/ratelimit.go` | time of the last grant, a semaphore | `Wait` (`RetryWithBackoff` has no caller) | callers: discovery and refresh share the Gamma limiter and the scanner's CLOB limiter; the collector has its own |
| **CLOB and Gamma clients** `internal/api` | none | `FetchBooksBatch`, `FetchMarketBySlug` | limiter, HTTP |
| **Slug generation** `internal/scanner/sluggen.go` | none | `CurrentSlug`, `GenerateInitialSlugs`, `GenerateNextSlugs` | clock |
| **Discovery worker** `internal/scanner/scanner.go` | none between cycles: its memory is `new_markets` | `runDiscovery` | Gamma, CLOB, store |
| **Refresh worker** same file | none between cycles | `runRefresh` | Gamma, CLOB, store |
| **CLOB merge** same file | none | `fetchAndMergeCLOBData` | CLOB, store |
| **Market store** `internal/db/postgres.go` | the two tables | `GetLatestSlugs`, `UpsertMarketsBatch`, `GetMarketsNeedingRefresh`, `GetActiveMarketTokens`, `InsertBookSnapshotsBatch` | PostgreSQL |
| **Lifecycle** `main.go` | context, signal channels | startup, signal, 30 s shutdown | everything |
| Schema, configuration, models, logging | none that changes | | |

What makes them hard:

* *Collector.* Two goroutines change the buffer; the flusher's filter remembers
  hashes across flushes and before the insert is known to have succeeded; three
  goroutines stop independently. Correct means: nothing lost silently, nothing stored
  twice, order kept, every change of a book kept, limit kept, shutdown ends.
* *Rate limiter.* The clock is read, then acted on later; callers queue on a
  semaphore that ignores cancellation. Correct means: grants spaced, every call
  returns, cancellation frees everyone.
* *Discovery.* Its only memory is the latest stored slug, and fetches, upserts and
  the process itself may fail between reading it and the next commit. Correct means:
  no window is passed over without Gamma having been asked, stored rows are not
  asked for again, and when Gamma is punctual a market is stored before its window
  starts.
* *Refresh and store.* Oldest-first selection under a limit, columns merged by
  `COALESCE`, two workers that overwrite each other's rows. Correct means: a row comes
  to show what Gamma says, a status never goes back, token ids are never lost.
* *CLOB merge.* Batches that cut a market's two tokens apart, any of which may fail or be
  cancelled behind the limiter. Correct means: the right book's hash for each market,
  and a cancelled worker that returns at once.
* *Lifecycle.* Signals at any moment, a shutdown that does not wait forever. Correct
  means: a signal ends the process, from wherever its goroutines are, and what was
  buffered when it came is handed to the database.

`PROJECT.json` lists each hazard at its source line with the properties about it, or
the reason none covers it.

## 2. Modules

| Module | Models | Used by |
|---|---|---|
| `Collector` | the collector's three goroutines, step by step | `MCCollector` (constants for TLC), `Lifecycle` |
| `BookRecorder` | the promise: books are observed, then stored once and in order, or given up | `Collector`, by refinement mapping |
| `CollectorProofs`, `CollectorFilterProofs` | theorems about `Collector` | `LifecycleProofs` |
| `Lifecycle` | `main`: startup, signals, shutdown, composed with `Collector` | `MCLifecycle`, `LifecycleProofs` |
| `RateLimiter` | `RateLimiter.Wait` for any number of callers | `RateLimiterProofs`, `ClobMerge` |
| `ClobMerge` | the scanner's CLOB batch loop, composed with the limiter it shares | `MCClobMerge`, `ClobMergeProofs` |
| `SlugGen` | slug arithmetic | `Discovery` |
| `Discovery` | `runDiscovery` for one symbol and interval, Gamma and database free to misbehave | `PunctualDiscovery`, `DiscoveryProofs` |
| `PunctualDiscovery` | the same worker where Gamma, the first upsert and the ticker behave | `TokenWindow` |
| `TokenWindow` | the collector's token list, composed with `PunctualDiscovery` | `WindowProofs` |
| `MarketRefresh` | the refresh worker and discovery on the rows of `new_markets` | `MCMarketRefresh`, `MarketRefreshProofs` |
| `LifecycleProofs`, `RateLimiterProofs`, `ClobMergeProofs`, `DiscoveryProofs`, `MarketRefreshProofs` | theorems about the module each is named after | |
| `WindowProofs` | theorems about `PunctualDiscovery` and `TokenWindow`, on top of `DiscoveryProofs` | |

### Collector

| Code | Model |
|---|---|
| `c.cachedTokens`, `c.buffer`, `c.lastBookHash` | `cachedTokens`, `buffer`, `lastBookHash` (`NoHash`: no entry) |
| locals of `fetchAndBuffer`: `tokens`, `i`, `snaps` | `tokens`, `pos` (= i + 1), `snaps` |
| locals of `flushBuffer`: `toFlush`, `filtered` | the same names |
| where each goroutine is | `refresher`, `fetcher`, `flusher` |
| `refreshTokens` | `RefreshTokens` (errors and empty results change nothing) |
| one batch: request, parse | `FetchBooks`, `FetchFail` |
| one batch: the section under `bufferMu` | `BufferAppend`, `BufferFull` |
| swap under `bufferMu` | `FlushTick`, `FlusherStop` (deferred final flush) |
| the filter loop | `FilterSkip`, `FilterKeep`, `FilterDone` |
| `InsertBookSnapshotsBatch` | `InsertCommit`, `InsertFail` |

Atomicity follows the locks: what happens under one critical section, or touches only
goroutine-local data, is one action. The hash map is used only by the flusher; its
loop takes one step per snapshot. Timers may fire at any moment, so every relation
between the polling delay, the flush interval and the latency of the APIs is covered.
A response answers any subset of the requested tokens, with or without hash and
timestamp. A request or query under a cancelled context fails; one that had been
answered before is covered by the interleaving of `Cancel`. An insert that PostgreSQL
commits while its context is cancelled before the acknowledgement arrives is the same
as one committed just before. `InsertBookSnapshotsBatch` is one implicit
transaction, so it stores all its new rows or none. The unique index on
`(token_id, timestamp_api)` makes `ON CONFLICT DO NOTHING` drop rows with the key of
another one; rows without a timestamp never conflict.

Left out: prices and levels of a book, `len(c.buffer)` read without the lock for a
debug message, and panics.

### Lifecycle

`main` is a program counter (`connecting`, `backoff`, `starting`, `launched`, `waiting`,
`draining`, `closing`, `exited`). The steps of `Collector` run between `Launch` and the end of the
process, and its `Cancel` is taken only by `ReceiveSignal`. The two channels hold one signal
each and `os/signal` drops what does not fit (`Deliver`). Since the early channel stays
registered, a signal never kills the process. The scanner's workers are goroutines that
end some time after the cancellation; `ClobMerge` shows why they do. `TimeoutExit` may
come at any moment of the drain, so nothing relies on the 30 seconds being long enough. main
then returns into the deferred `store.Close()`, which waits for the connections that are in use
(`closing`): the goroutines go on until `StoreClosed` ends the process. Which of them hold a
connection is left open, so `StoreClosed` may cut them off anywhere. After a graceful shutdown
no connection is in use and `GracefulExit` covers the close as well.
`bufferedThen` is history: the ids in the buffer at the cancellation.

### Rate limiter

Time is relative: `elapsed` is the time since `lastSent`, capped at `MinDelay` because
`Wait` never tells larger values apart, and `sleep` is what remains of the timer.
`Tick` may occur between any two steps of `Wait`, which is how a goroutine is
delayed. The Go channel serves blocked senders first come, first served. The model
never bounds the clock, so a run explores every behaviour of its instance.

### CLOB merge

`ClobMerge` extends `RateLimiter`: every step of its next-state relation that touches the
limiter is a step of the limiter, with the loop's reaction conjoined (`Ask` is `Call`,
`Limited` is `Grant`, `Interrupted` is `Interrupt`). The theorems about the limiter
therefore hold in it. One worker's cycle is followed; the other callers call freely.
`markets` is the set of sides each market has a token id for. `TokenIDs` is the list
the loop walks, given by the place of each token (`Place`): the markets one after the
other, yes before no. `pos` is `i + 1`, `lastBookHash` says whose hash a market has, and `books`, history, what came for each token.
A batch size of zero or less is excluded by an assumption: the code never checks it.

### Discovery

A slug is its window's start time. The worker's program is `StartCycle`
(`GetLatestSlugs` and the generation of tasks), `FetchFound`/`FetchMissing`/
`FetchError` per task, `FetchesDone`, `Upsert`, `MergeUpsert`. `Restart` is a crash or
a shutdown in the middle of a cycle, followed by a new start. A batch with a market
the table rejects is rolled back as a whole, since all its statements share one
transaction without savepoints. Gamma's `startDate` is taken to order markets as
their windows are; a market in `Undated` has none that can be parsed.
Slugs are well-formed: the error of `parseTimestampSlug` would lead to the same fallback as
a stale anchor. `missing`, `failed` and `restarted` are history: no action reads them.

`PunctualDiscovery` conjoins environment assumptions to those actions: Gamma lists
windows in order, `Ahead` of them early; every request is answered; the first upsert
of a cycle commits; every window sees a whole cycle. With 30-second cycles and windows
of at least five minutes the last one is what the deployment intends.

### Token window

`TokenWindow` extends `PunctualDiscovery` with the refresher of the collector, seen from one symbol
and interval: `cache` is the window whose tokens are in the list, `asked` the window
of the query in flight (the slug is computed before the query, which may end in the
next window), `due` the refresher's ticker. One query serves all symbols and intervals,
so an answer without this one's tokens may replace the list or keep it. A restart, at
any point, empties the list. `since` and `failures` are history and say from when on, and
for how long, the list may lag behind.

### Market refresh

A row is its status and its token ids (`none`: NULL, `blank`: the empty string). Gamma moves
each market through the stages of `Life`, flags included, and may delist some. Each worker selects,
fetches market by market, upserts, and, when it has token ids to ask for (`clob`), upserts again;
`found` holds its answers meanwhile. `todo` keeps the token ids as `GetMarketsNeedingRefresh` read
them, which is what `Preserved` falls back to. `UpsertMarketsBatch` merges as `COALESCE` does: NULL
keeps the old value, an empty string replaces it. Discovery asks only for markets that are not
stored, which is what `AsksOnlyForNew` establishes for markets with a start date.

An upsert is a transaction. It begins in `FetchesDone` or `BooksMerged` and ends in `Upsert` or
`MergeUpsert`, and those of the two workers overlap. `updated_at` is `now()`, in PostgreSQL the time
at which the transaction began: a commit that waited may set it back. Only the order of these
times matters to the selection, so `older` gives each row, and each open transaction, the number of
lower times (`Ranks`); rows of one transaction share it. `aged` are the times past the cutoff
of `REFRESH_MAX_AGE_M`. The rows themselves change at the commit: a worker reads none of the
table between the statements of its transaction, and a conflicting statement of the other waits for the commit.

A row with a pair of market and status in `Refused` violates a constraint of the table. It aborts the
transaction (`IsRefused`), which is rolled back as often as the row comes, without being a fault.
One fault (`Fault`) is a failed fetch, a lost commit (a broken connection, or two transactions that locked the
same rows in different orders) or a restart of the process.

## 3. Runs

| Run | Configuration and bounds | Shows |
|---|---|---|
| `pipeline` | three tokens in batches of two, two hashes, one timestamp, 3 snapshots, buffer of 2; 3.1 M states | `TypeOK`, `BufferBounded`, `PipelineOrdered`, `NoRepeatedHash`, `SkipJustified`, `EverySnapshotAccounted`, `InsertedInOrder`, and `RecorderSpec`: the collector implements `BookRecorder`. Three snapshots allow a change and a change back across two flushes, a batch of two overflows a buffer in which one row waits, and the list of three tokens ends with a short batch |
| `lifecycle` | two tokens in batches of one, list replaced by a shorter and a longer one, 2 snapshots, 2 signals; 289 k states | `LifecycleTypeOK`, `SignalledBooksLeave`, `SignalHeeded`, `BufferIsDrained`. Two signals let one come during the drain; two snapshots let one be buffered while another is in flight |
| `wait` | three callers, delay of 2 ticks, two markets with three or four token ids, batches of 1 and 3; 122 k states | `TypeOK`, `GrantsSpaced`, `WaitReturns`, `CancelReleases` of the limiter; `MergeTypeOK`, `MergePrefersYes`, `CancelStopsWorker` of the loop. Batches of 1 separate all pairs of tokens, batches of 3 cut the second of two full markets |
| `passed` | windows of 2 ticks, clock to 9, Gamma lists up to slug 10; 184 k states | `TypeOK`, `PassedOnlyIfUnanswered`, `AsksOnlyForNew`, `AsksAhead`. The clock is long enough for an anchor to go stale and for a later one to be stored after it |
| `window` | windows of 9 ticks, token refresh every 2, clock to 44, one undated market, one failed query per window; 43 k states | `WindowTypeOK`, `CurrentWindowKnown`, `TokensFollowWindow`. Five windows; the bound of `TokensFollowWindow` is tight: one tick earlier TLC refutes it |
| `refresh` | two markets that are tradable and then closed, all kinds of token answers, one row refused once its market is closed, `RefreshLimit` 1, two faults; 189 k states | `MarketTypeOK`, `OnlyDiscoveryTurnsBack`, `TokensKept`, `StatusConverges`. With a limit below the number of rows the two take turns, second upserts repeat old answers, and a row turned back has to age before it is asked for again |
| `converge` | three markets that are announced and then tradable, one that may be delisted and is refused while tradable, `RefreshLimit` 2, one fault; 414 k states | `StatusConverges` where one place of the limit can be taken for good: the other two rows share the second. No token ids, so cycles end with the first upsert; `refresh` has the second |
| `startup`, `skipped`, `shutdown`, `retry`, `starved` | violated | see the findings |

Named bounds: `MaxSnapshots` (snapshots ever built), `MaxSignals`, `MaxTime` (the clock),
`MaxSlug` (the latest window Gamma ever lists), `MaxFaults`, `MaxFailures` (failed token
queries in a window). Every other counter is bounded by the
program itself. Deadlock is checked in all runs; the only states in which a model
rests are `Terminated`, all goroutines of the collector having returned, and `Gone`, the process
having ended.

Symmetry is used in `pipeline`, on values the collector only compares for equality; the
run has no liveness property.

Each property of a passing run has a mutant in `PROJECT.json`: an operator
`Bug...` defined before the one it replaces, under which TLC finds the property
violated.

### Fairness

* `LifecycleFairness`: weak fairness for `main` and for a goroutine that can continue
  (fetch cycle, filter, insert). A request or an insert ends because the HTTP client
  has a timeout (`HTTP_TIMEOUT_S`), because the connection breaks, or because the
  context is cancelled. Strong fairness for leaving a `select` loop: with a cancelled
  context a ready ticker may be chosen any number of times, but Go chooses at
  random. Nothing is assumed of Gamma, CLOB or PostgreSQL succeeding, nor of the
  30 seconds ever passing; of `store.Close()` only that it returns once no goroutine is left.
* `MergeSpec`: the goroutine inside the limiter proceeds and the loop works; time may
  stand still, so that `CancelReleases` and `CancelStopsWorker` do not depend on timers.
  `WaitReturns` alone assumes `TimePasses`.
* `MarketRefresh!Spec`: tickers fire, requests and transactions end, rows age. Faults are bounded by
  `MaxFaults`, so they end; Gamma need never list or advance a market. Refused batches and delisted
  markets are not bounded: `StatusConverges` says what it needs of them (`RefreshCanProceed`).

## 4. Findings

1. **A lost state is remembered as inserted** (`skipped`). `flushBuffer` sets
   `lastBookHash` before the insert (`collector.go:275`) and leaves it when the insert
   fails. Equal books are skipped afterwards although no row holds them.
2. **The final flush is not final** (`shutdown`). The fetcher can append after the
   deferred flush has swapped the buffer; `collector.go:232` promises a final flush. What was
   buffered when the signal came does leave (`SignalledBooksLeave`).
3. **A failed fetch is not always retried** (`retry`). When a later slug of the same
   cycle is stored it becomes the anchor; `gamma.go:36` says the caller will retry.
4. **A signal during the connection attempt that succeeds is lost** (`startup`). It stays
   in the early channel, which is read only after a failed attempt; `main.go:33` sets that
   channel up for interrupts during the connection. The process starts and runs until
   a second signal.
5. **Delisted markets starve the others** (`starved`). They keep their `updated_at` and their
   places at the head of the selection; `RefreshLimit` of them stop every refresh.
   `scanner.go:165` says the worker keeps existing markets up to date. With fewer of
   them, and no refused row, `StatusConverges` holds.

Part of the models, without a run of its own:

* One refused market keeps its whole batch out (`UpsertMarketsBatch`), where `postgres.go:150` says
  that the other markets go on: in an aborted transaction they cannot. Its row keeps its
  `updated_at`, so the refresh worker selects the same batch again. `KeptUpToDate` fails by that, too,
  with `Refused <- MCRefused` and `RefreshLimit = 2` in `MarketRefresh_starved.cfg` and nothing delisted.
* `sluggen.go:51` calls an anchor stale when all of its N future slugs are expired, while the
  comparison (`IsStale`) gives it up when the last of these windows has started. That window is
  open, and the fallback does not ask for it. `AsksAhead` shows that no anchor is kept for longer than it is of use.

## 5. Proofs

Every safety invariant and every action property the passing runs check is also a
theorem, for every value of the constants under the `ASSUME`s of the module: any sets of
tokens, hashes, callers and markets, any integer batch size, any buffer limit, windows of
any length. Where a theorem needs more of its constants, the hypothesis is in its statement.

**`CollectorProofs`.** `TypeCorrect` (`[]TypeOK`) by induction over the actions. The
work is in the batch arithmetic: `TypeOK` includes `fetcher = "request" => pos <=
Len(tokens)`, without which a batch would not be a sequence of tokens. `BufferStaysBounded`
adds that the buffer grows only under `HasRoom`.
For `SnapshotsStayOrdered` and `RowsInsertedInOrder`, `PipelineOrdered`
speaks of one sequence, `handed \o toFlush \o buffer \o snaps`, and every action
moves a snapshot along it or removes one; lemmas about concatenation, heads and
tails say what that does to an increasing sequence. It is not inductive by itself:
`StageInv` adds which goroutine state holds which local data (a fetcher outside
"append" has no `snaps`, a flusher outside "filter" has no `toFlush`), that ids never
exceed `built`, and that each row of the table was handed to an insert earlier
than the rows being prepared. The last part gives `InsertedInOrder`.

**`CollectorFilterProofs`.** `FilterInv` says that `lastBookHash[t]` is the hash of the
latest kept snapshot of `t` that has one. With the order of `handed` this yields
`FilterKeepsNoRepeat` and `FilterSkipsOnlyDuplicates`; `SnapshotsAccounted` follows from the stages.
`CollectorImplementsRecorder` shows that the initial states map to initial states of `BookRecorder`
and that `FetchBooks` with books is `Observe`, the steps that drop, skip or insert are
`Release`, and the others stutter.

**`LifecycleProofs`.** `ProcessRunsCollector`: every step of the composition is a step of
`Collector` or leaves its variables alone, so `Collector`'s theorems hold of the process.
`SignalledBooksAreFlushed` (`SignalledBooksLeave`) follows from `DrainInv` and `StageInv`: the process ends gracefully only
when all goroutines have stopped, the flusher only after its final swap, and after that swap no id of
`bufferedThen` is in the buffer. None can come back: those ids were built before the cancellation, and
a batch still on its way in `snaps` has others.

**`RateLimiterProofs`.** `LimiterTypeCorrect`, and `LimiterPaces` from the invariant that an armed sleep
covers what is missing of the delay: `sleep + elapsed >= MinDelay` while sleeping.

**`ClobMergeProofs`.** `MergeUsesLimiter` is the refinement `MergeSpec => Spec` of the limiter, and
`MergePaced` its consequence for the loop. `MergedHashes` (`MergePrefersYes`) rests on `MergedSoFar`: in a
cycle each market has the hash its books so far call for, and books came only for tokens of the
batches before `pos`, so that an answer never meets a hash of the same side. Both invariants need
`QueuedOnce`, that no caller is inside `Wait` twice: what the limiter does to another caller is no step of the loop.

**`DiscoveryProofs`.** `DiscoveryInv` says that the slugs of a cycle are consecutive windows after all
stored ones with a start date (`TasksAhead`), and that below the next slug, below every market found in the
cycle and below every stored one there is no window after `restarted` without an answer (`NothingSkipped`).
The anchor is a `CHOOSE`: `GreatestExists` shows by a least counterexample that a non-empty, bounded set of
integers has a greatest element, and `NextWindow` that no window lies strictly between two neighbours. The
theorems are `DiscoveryTypeCorrect`, `AsksForNew` (`AsksOnlyForNew`) and `NoneSkipped` (`PassedOnlyIfUnanswered`), all under
`FutureSlugCount >= 0`, and `DiscoveryLeads` (`AsksAhead`) where both slug counts are positive. The code does not validate that value (`config.go:46`), and with a negative one
`IsStale` gives up an anchor that is ahead of the clock, whose windows are then asked for again.

**`WindowProofs`.** `Provided` names what configuration and Gamma must supply: at least one
window listed ahead, at least one slug per cycle, no row the table refuses, and of as many consecutive
windows as a cycle asks for, one with a start date. The window run's constants meet it. The last part cannot
be dropped: with `FutureSlugCount` 1 and one undated window TLC finds a state that violates
`CurrentWindowKnown`: the cycle that must fetch the next window starts too far behind.
`PunctualInv` adds to `DiscoveryInv` that the stored windows have no gap up to the clock (`NoGap`), that a
cycle never asks past a window it has neither found nor stored, except past those that will not be listed before
it ends (`AsksInOrder`), that a cycle lasts at most into the window after its own (`CycleShort`), and that a cycle
still in its own window holds the next one as a task, a market or a row (`NextProvided`). Then the market of every
window is stored when it starts (`StoredInTime`). `WindowIsPunctual` carries this over to
`TokenWindow` (`WindowStored`). `ListFollowsWindow` (`TokensFollowWindow`) needs
two more facts: a query in flight is for the present window whenever the list holds that window
already (`AsksForPresent`), so no late answer takes it away; and while the list is behind, the time since the window
began plus the time until the ticker fires stays below one refresh period, plus one per failed query, plus one while
the right query is in flight (`SoonAsked`). `WindowTypeCorrect` needs only `FutureSlugCount >= 0`.

**`MarketRefreshProofs`.** `MarketTypeCorrect`; `IdsKept` (`TokensKept`) and `StatusForward` (`OnlyDiscoveryTurnsBack`). `Held`
says what a worker holds in each of its states; in particular the markets discovery has not written
are not stored. The typing of `older` is the laborious part of `MarketTypeOK`: it is its own ranking, so
each step that begins or ends a transaction must rank the remaining times anew. `RanksFacts` shows
that ranking keeps the order and that a ranking ranks itself, `BeginOrder` and `EndOrder` apply it. `TokensHeld` says that the refresh worker never holds a blank token id for a row
with ids, whether read or answered, although discovery may write the row in between. `StatusHeld`
says that no row and no answer is ahead of Gamma, and that an answer of the refresh worker is not behind the row.
`StatusForward` assumes `GammaForward`: the stages of a market's life do not go back. Without it a status that goes
back is Gamma's doing.

The invariants used in the inductions were checked with TLC on the instances of section 3
before they were proved; sets over all integers, such as `Between`, were cut down to those of the instance.

Only model-checked: the liveness properties `SignalHeeded`, `BufferIsDrained`, `WaitReturns`, `CancelReleases`,
`CancelStopsWorker` and `StatusConverges` (fairness and ENABLED are outside the proof system's reach), and the
violations of section 4. No module declares a RECURSIVE operator.

## 6. Not modelled, and the plan

Not modelled: configuration parsing, logging, data types, HTTP and JSON details, the
migrations (never run), the columns of a row other than status and token ids, prices, and the
functions without callers (`RetryWithBackoff`, `InsertBookSnapshot`, `UpsertMarket`,
`GetMarketsByTokenIDs`, `GenerateNextSlug`). `recover` in the goroutines is left out
because no modelled path panics; a scanner batch size of zero or less, which would spin or
panic, is excluded by `ClobMergeAssumption`. The order in which a cycle goes through the eight
symbol and interval pairs is left out: a pair's tasks and anchor do not depend on
another's, and that a refused market of one blocks the batch of all is described in section 4.

Theorems planned next, most important first:

1. `MarketRefresh` and `Discovery` share one worker. That the discovery steps of `MarketRefresh`, reduced
   to the set of stored markets, are steps of `Discovery` is argued in section 2; a refinement mapping
   would make it a theorem.
2. What `BookRecorder` promises by itself, and through `CollectorImplementsRecorder` and
   `ProcessRunsCollector` of the whole process.
3. An abstract specification of the store as the collector sees it (windows appear in
   order, none is missing), implemented by `PunctualDiscovery`.
