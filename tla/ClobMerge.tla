------------------------------ MODULE ClobMerge ------------------------------
(***************************************************************************)
(* A worker of the scanner that fetches the books of its markets           *)
(* (fetchAndMergeCLOBData and mergeBookData, internal/scanner/scanner.go): *)
(* the token ids of all markets are asked for in batches, and after each   *)
(* answer every market takes from it what is about its tokens.  Each       *)
(* request first waits for the CLOB client's RateLimiter, which the other  *)
(* worker shares, and the context may be cancelled at any moment.          *)
(*                                                                         *)
(* Of a book only the hash is kept here; prices come from the yes book     *)
(* alone.  A market is the set of sides it has a token id for.             *)
(*                                                                         *)
(* Operators named Bug... are mistakes the mutation runs put in place of   *)
(* the operator they precede.                                              *)
(***************************************************************************)
EXTENDS RateLimiter, FiniteSets

CONSTANTS
    Worker,              \* the caller whose cycle is followed
    MarketLists,         \* the markets a cycle may hold
    BatchSizes           \* values of cfg.CLOBBatchSize

ASSUME ClobMergeAssumption ==
    /\ Worker \in Callers
    /\ MarketLists \subseteq Seq(SUBSET {"yes", "no"})
    /\ BatchSizes \subseteq Nat \ {0}

VARIABLES
    loop,                \* "idle", "batch", "wait", "request", "upsert", "stopped"
    batchSize,           \* cfg.CLOBBatchSize
    markets,             \* the markets of this cycle
    pos,                 \* i + 1
    lastBookHash,        \* whose hash each market has
    books                \* history: what came for each token in this cycle

cycleVars == <<markets, pos, lastBookHash, books>>
loopVars == <<loop, batchSize, cycleVars>>
mergeVars == <<vars, loopVars>>

Sides == {"yes", "no"}

(* For a token: no book, one with an empty hash, one with a hash. *)
Answer == {"none", "empty", "hash"}

MergeTypeOK ==
    /\ loop \in {"idle", "batch", "wait", "request", "upsert", "stopped"}
    /\ loop = "wait" <=> Waits(Worker)
    /\ batchSize \in BatchSizes
    /\ markets \in MarketLists \cup {<<>>}
    /\ pos \in Nat \ {0}
    /\ lastBookHash \in [DOMAIN markets -> {"none", "blank", "yes", "no"}]
    /\ books \in [DOMAIN markets -> [Sides -> Answer]]

NoCycle == markets' = <<>> /\ pos' = 1 /\ lastBookHash' = <<>> /\ books' = <<>>

MergeInit ==
    /\ Init
    /\ loop = "idle" /\ batchSize \in BatchSizes
    /\ markets = <<>> /\ pos = 1 /\ lastBookHash = <<>> /\ books = <<>>

(* The callers' tokenIDsToFetch lists these market by market, yes before no. *)
TokenIDs == {t \in [market : DOMAIN markets, side : Sides] : t.side \in markets[t.market]}

UpTo(u, t) ==
    u.market < t.market \/ (u.market = t.market /\ u.side \in {"yes", t.side})

(* The place of a token id in the list, i + 1, and the length of the list.  *)
Place(t) == Cardinality({u \in TokenIDs : UpTo(u, t)})
Total == Cardinality(TokenIDs)

(* The last batch may be shorter. *)
Batch == {t \in TokenIDs : pos <= Place(t) /\ Place(t) < pos + batchSize}

-----------------------------------------------------------------------------
(* The worker has upserted markets some of which have token ids. *)
Begin ==
    /\ loop = "idle" /\ ~cancelled
    /\ loop' = "batch"
    /\ \E list \in MarketLists :
           /\ markets' = list /\ pos' = 1
           /\ lastBookHash' = [m \in DOMAIN list |-> "none"]
           /\ books' = [m \in DOMAIN list |-> [s \in Sides |-> "none"]]
    /\ UNCHANGED <<vars, batchSize>>

(* FetchBooksBatch waits for the limiter. *)
Ask ==
    /\ loop = "batch" /\ pos <= Total /\ ~cancelled
    /\ Call(Worker)
    /\ loop' = "wait"
    /\ UNCHANGED <<batchSize, cycleVars>>

(* The context was cancelled before a batch, or while the worker was idle.  *)
Abandon ==
    /\ cancelled
    /\ loop = "idle" \/ (loop = "batch" /\ pos <= Total)
    /\ loop' = "stopped" /\ NoCycle
    /\ UNCHANGED <<vars, batchSize>>

Limited ==
    /\ Grant
    /\ loop' = IF holder = Worker THEN "request" ELSE loop
    /\ UNCHANGED <<batchSize, cycleVars>>

(* An error is logged, and the loop continues with the next batch. *)
NextBatch == loop' = "batch" /\ pos' = pos + batchSize

Interrupted ==
    /\ Interrupt
    /\ IF holder = Worker THEN NextBatch ELSE UNCHANGED <<loop, pos>>
    /\ UNCHANGED <<batchSize, markets, lastBookHash, books>>

BugRetryRequest == loop = "request" /\ UNCHANGED mergeVars
RequestFails ==
    /\ loop = "request"
    /\ NextBatch
    /\ UNCHANGED <<vars, batchSize, markets, lastBookHash, books>>

(* The yes book's hash replaces what the market has; the no book's hash,    *)
(* even an empty one, is taken when it has none.                            *)
BugMergeMarket(hash, yes, no) ==
    CASE yes = "hash"                   -> "yes"
      [] yes # "hash" /\ no = "hash"    -> "no"
      [] yes # "hash" /\ no = "empty"   -> "blank"
      [] yes # "hash" /\ no = "none"    -> hash
MergeMarket(hash, yes, no) ==
    LET merged == IF yes = "hash" THEN "yes" ELSE hash
    IN  IF no # "none" /\ merged \in {"none", "blank"}
        THEN (IF no = "hash" THEN "no" ELSE "blank")
        ELSE merged

(* Books come for any of the batch's tokens and are merged. *)
RequestAnswered ==
    /\ loop = "request" /\ ~cancelled
    /\ \E answer \in [Batch -> Answer] :
           LET Got(m, s) == IF [market |-> m, side |-> s] \in Batch
                            THEN answer[[market |-> m, side |-> s]] ELSE "none"
           IN  /\ lastBookHash' = [m \in DOMAIN markets |->
                      MergeMarket(lastBookHash[m], Got(m, "yes"), Got(m, "no"))]
               /\ books' = [m \in DOMAIN markets |-> [s \in Sides |->
                      IF Got(m, s) = "none" THEN books[m][s] ELSE Got(m, s)]]
    /\ NextBatch
    /\ UNCHANGED <<vars, batchSize, markets>>

BatchesDone ==
    /\ loop = "batch" /\ pos > Total
    /\ loop' = "upsert"
    /\ UNCHANGED <<vars, batchSize, cycleVars>>

(* The second UpsertMarketsBatch, whether it commits or not. *)
UpsertMerged ==
    /\ loop = "upsert"
    /\ loop' = "idle" /\ NoCycle
    /\ UNCHANGED <<vars, batchSize>>

(* What the worker does without the limiter, and the limiter without it.    *)
Work == Ask \/ Abandon \/ RequestFails \/ RequestAnswered \/ BatchesDone \/ UpsertMerged

Elsewhere ==
    /\ \/ \E c \in Callers \ {Worker} : Call(c)
       \/ Enter \/ Check \/ Arm \/ Fire \/ Cancel \/ Tick
    /\ UNCHANGED loopVars

MergeNext == Begin \/ Work \/ Limited \/ Interrupted \/ Elsewhere

(* Goroutines run, but time may stand still; a request ends, if only by the *)
(* client's timeout.                                                        *)
MergeSpec ==
    MergeInit /\ [][MergeNext]_mergeVars /\ WF_vars(Proceed) /\ WF_mergeVars(Work)

-----------------------------------------------------------------------------
(* What the hash of a market should be when these books came. *)
HashOf(book) ==
    CASE book["yes"] = "hash"                            -> "yes"
      [] book["yes"] # "hash" /\ book["no"] = "hash"     -> "no"
      [] book["yes"] # "hash" /\ book["no"] = "empty"    -> "blank"
      [] book["yes"] # "hash" /\ book["no"] = "none"     -> "none"

(* "Only store hash from no token if yes didn't have one": wherever the     *)
(* batches cut the list of token ids, between the two of a market too, and  *)
(* whichever batches fail, the markets upserted have the hash of their yes  *)
(* book, or of their no book when no hash came with the first.              *)
MergePrefersYes ==
    loop = "upsert" =>
        lastBookHash = [m \in DOMAIN markets |-> HashOf(books[m])]

(* A cancelled worker returns, without time passing, from whatever batch it *)
(* is in: it neither sleeps in the limiter nor asks for the other batches.  *)
CancelStopsWorker == cancelled ~> loop = "stopped"
=============================================================================
