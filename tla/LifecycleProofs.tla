--------------------------- MODULE LifecycleProofs ---------------------------
(***************************************************************************)
(* Proofs about Lifecycle: the process runs the collector as Collector     *)
(* describes it, and a graceful shutdown takes along what was buffered     *)
(* when the signal came.                                                   *)
(***************************************************************************)
EXTENDS Lifecycle, CollectorProofs

(* What main, the signals and the scanner do is no step of the collector's  *)
(* goroutines, but for the cancellation.                                    *)
LEMMA ProcessStep == LifecycleNext => [Next]_vars
  <1>1. CollectorStep => Next
    BY DEF CollectorStep, Next
  <1>2. ReceiveSignal => Next
    BY DEF ReceiveSignal, Next
  <1> QED
    BY <1>1, <1>2
       DEF LifecycleNext, Signal, Connects, ConnectFails, StartupInterrupted,
           RetryConnect, Launch, Register, ScannerStop, GracefulExit,
           TimeoutExit, StoreClosed, Gone, processVars

LEMMA ProcessStepOrStutter == [LifecycleNext]_processVars => [Next]_vars
  BY ProcessStep DEF processVars

(* The process implements the collector: whatever main does, whatever       *)
(* signals arrive and whenever the process ends, the goroutines behave as   *)
(* Collector says, so each of its theorems holds here.                      *)
THEOREM ProcessRunsCollector == LifecycleSpec => Spec
  <1>1. LifecycleInit => Init
    BY DEF LifecycleInit
  <1> QED BY <1>1, ProcessStepOrStutter, PTL DEF LifecycleSpec, Spec

-----------------------------------------------------------------------------
(* Type correctness of the process. *)

LEMMA ConcatElements ==
  ASSUME NEW S, NEW a \in Seq(S), NEW b \in Seq(S)
  PROVE  Elements(a \o b) = Elements(a) \cup Elements(b)
  BY ConcatFacts

LEMMA LifecycleTypeInit == LifecycleInit => LifecycleTypeOK
  BY TypeInit, LifecycleAssumption DEF LifecycleInit, LifecycleTypeOK

(* Ids of buffered snapshots. *)
LEMMA BufferedIds ==
  ASSUME TypeOK
  PROVE  Ids(Elements(buffer)) \subseteq 1..MaxSnapshots
  <1>1. Elements(buffer) \subseteq Snapshot
    BY ElementsType DEF TypeOK
  <1> QED BY <1>1 DEF Ids, Snapshot

LEMMA LifecycleTypeStep ==
  LifecycleTypeOK /\ [LifecycleNext]_processVars => LifecycleTypeOK'
  <1> SUFFICES ASSUME LifecycleTypeOK, [LifecycleNext]_processVars
               PROVE  LifecycleTypeOK'
    OBVIOUS
  <1> USE LifecycleAssumption DEF LifecycleTypeOK
  <1>0. TypeOK'
    BY ProcessStepOrStutter, TypeStep
  <1>1. CASE Signal
    BY <1>0, <1>1 DEF Signal, Deliver
  <1>2. CASE Connects \/ ConnectFails \/ RetryConnect \/ Register \/ TimeoutExit
    BY <1>0, <1>2 DEF Connects, ConnectFails, RetryConnect, Register, TimeoutExit
  <1>3. CASE StartupInterrupted \/ GracefulExit \/ StoreClosed
    <2>1. /\ main' = "exited" /\ exit' \in {"startup", "graceful", "timeout"}
          /\ earlySigCh' \in {0, earlySigCh}
          /\ UNCHANGED <<sigCh, scanning, signals, bufferedThen>>
      BY <1>3 DEF StartupInterrupted, GracefulExit, StoreClosed
    <2> QED BY <1>0, <2>1
  <1>4. CASE Launch
    BY <1>0, <1>4 DEF Launch
  <1>5. CASE ReceiveSignal
    BY <1>0, <1>5, BufferedIds DEF ReceiveSignal
  <1>6. CASE ScannerStop
    BY <1>0, <1>6 DEF ScannerStop
  <1>7. CASE CollectorStep
    BY <1>0, <1>7 DEF CollectorStep, Working, mainVars
  <1>8. CASE Gone \/ UNCHANGED processVars
    BY <1>0, <1>8 DEF Gone, processVars, mainVars
  <1> QED
    BY <1>1, <1>2, <1>3, <1>4, <1>5, <1>6, <1>7, <1>8 DEF LifecycleNext

LEMMA ProcessInvariant == LifecycleSpec => [](LifecycleTypeOK /\ StageInv)
  <1>1. LifecycleTypeOK => TypeOK
    BY DEF LifecycleTypeOK
  <1>2. LifecycleTypeOK /\ StageInv /\ [LifecycleNext]_processVars => StageInv'
    BY <1>1, ProcessStepOrStutter, StageStep
  <1>3. LifecycleInit => StageInv
    BY StageInit DEF LifecycleInit
  <1> QED
    BY <1>2, <1>3, LifecycleTypeInit, LifecycleTypeStep, PTL DEF LifecycleSpec

(* Type correctness: in particular the process has ended exactly when it has *)
(* a reason to, and no channel ever holds more than one signal.             *)
THEOREM ProcessTypeCorrect == LifecycleSpec => []LifecycleTypeOK
  BY ProcessInvariant, PTL

-----------------------------------------------------------------------------
(* What was buffered when the signal came. *)

(* The flusher returns only from its final flush, which starts after the    *)
(* cancellation and swaps the buffer; whatever the fetcher has or builds    *)
(* from the signal on is not part of what was buffered then.                *)
DrainInv ==
    /\ finalFlush => cancelled
    /\ flusher = "stopped" => finalFlush
    /\ flusher \in {"idle", "stopped"} => filtered = <<>>
    /\ bufferedThen \subseteq 1..built
    /\ bufferedThen \cap Ids(Elements(snaps)) = {}
    /\ finalFlush => bufferedThen \cap Ids(Elements(buffer)) = {}
    /\ exit = "graceful" => Stopped

LEMMA DrainInit == LifecycleInit => DrainInv
  BY DEF LifecycleInit, Init, DrainInv, Stopped

LEMMA DrainSignal ==
  ASSUME LifecycleTypeOK, StageInv, DrainInv, ReceiveSignal
  PROVE  DrainInv'
  <1>1. /\ ~cancelled /\ bufferedThen' = Ids(Elements(buffer)) /\ exit' = exit
        /\ UNCHANGED <<buffer, snaps, built, flusher, finalFlush, filtered,
                       refresher, fetcher>>
    BY DEF ReceiveSignal, Cancel, cacheVars, fetchVars, flushVars
  <1>2. Below(Elements(buffer), Elements(snaps))
    BY DEF StageInv, OrderInv, Below
  <1>3. Elements(buffer) \subseteq Snapshot /\ Elements(snaps) \subseteq Snapshot
    BY ElementsType DEF LifecycleTypeOK, TypeOK
  <1>4. Ids(Elements(buffer)) \cap Ids(Elements(snaps)) = {}
    BY <1>2, <1>3 DEF Ids, Below, Snapshot
  <1>5. Ids(Elements(buffer)) \subseteq 1..built
    BY <1>3 DEF StageInv, OrderInv, Ids, Snapshot
  <1> QED BY <1>1, <1>4, <1>5 DEF DrainInv, Stopped

(* The fetcher: what it parses is new, and only that enters the buffer. *)
LEMMA DrainFetch ==
  ASSUME LifecycleTypeOK, DrainInv, Fetch, UNCHANGED <<bufferedThen, exit>>,
         exit = "none"
  PROVE  DrainInv'
  <1> USE DEF fetchVars, flushVars, cacheVars
  <1>1. TypeOK /\ Elements(<<>>) = {}
    BY EmptyFacts DEF LifecycleTypeOK
  <1>2. UNCHANGED <<cancelled, flusher, finalFlush, filtered>>
    BY DEF Fetch, FetchTick, FetchFail, FetchBooks, BufferAppend, BufferFull
  <1>3. CASE FetchTick \/ FetchFail
    <2>1. UNCHANGED <<built, snaps, buffer>>
      BY <1>3 DEF FetchTick, FetchFail
    <2> QED BY <1>2, <2>1 DEF DrainInv
  <1>4. CASE FetchBooks
    <2>1. /\ built \in Nat /\ built' \in Nat /\ built <= built'
          /\ Ids(Elements(snaps')) = (built + 1)..built'
      BY <1>1, <1>4, FetchBooksEffect
    <2>2. buffer' = buffer
      BY <1>4 DEF FetchBooks
    <2>3. bufferedThen' \subseteq 1..built' /\ bufferedThen' \cap Ids(Elements(snaps')) = {}
      BY <2>1 DEF DrainInv
    <2> QED BY <1>2, <2>2, <2>3 DEF DrainInv
  <1>5. CASE BufferAppend
    <2>1. buffer' = buffer \o snaps /\ snaps' = <<>> /\ built' = built
      BY <1>5 DEF BufferAppend
    <2>2. Elements(buffer') = Elements(buffer) \cup Elements(snaps)
      BY <1>1, <2>1, ConcatElements DEF TypeOK
    <2> QED BY <1>1, <1>2, <2>1, <2>2 DEF DrainInv, Ids
  <1>6. CASE BufferFull
    <2>1. UNCHANGED <<buffer, built>> /\ snaps' = <<>>
      BY <1>6 DEF BufferFull
    <2> QED BY <1>1, <1>2, <2>1 DEF DrainInv, Ids
  <1> QED BY <1>3, <1>4, <1>5, <1>6 DEF Fetch

(* The flusher: its final flush empties the buffer. *)
LEMMA DrainFlush ==
  ASSUME DrainInv, FlushTick \/ FlusherStop \/ Filter \/ Insert,
         UNCHANGED <<bufferedThen, exit>>, exit = "none"
  PROVE  DrainInv'
  <1> USE DEF fetchVars, flushVars, cacheVars
  <1>1. UNCHANGED <<cancelled, built, snaps>>
    BY DEF FlushTick, FlusherStop, Filter, FilterSkip, FilterKeep, FilterDone,
           Insert, InsertCommit, InsertFail
  <1>2. Ids(Elements(<<>>)) = {}
    BY EmptyFacts DEF Ids
  <1>3. CASE FlushTick \/ FlusherStop
    <2>1. /\ buffer' = <<>> /\ filtered' = filtered /\ filtered = <<>>
          /\ finalFlush' = finalFlush \/ (finalFlush' = TRUE /\ cancelled)
          /\ flusher' = "stopped" => finalFlush'
      BY <1>3 DEF FlushTick, FlusherStop, Swap, DrainInv
    <2> QED BY <1>1, <1>2, <2>1 DEF DrainInv
  <1>4. CASE Filter \/ Insert
    <2>1. UNCHANGED <<buffer, finalFlush>>
      BY <1>4 DEF Filter, FilterSkip, FilterKeep, FilterDone, Insert,
                  InsertCommit, InsertFail
    <2>2. \/ flusher' = flusher /\ flusher = "filter"
          \/ flusher' = "insert"
          \/ FlushReturn
      BY <1>4 DEF Filter, FilterSkip, FilterKeep, FilterDone, Insert,
                  InsertCommit, InsertFail
    <2> QED BY <1>1, <2>1, <2>2 DEF DrainInv, FlushReturn
  <1> QED BY <1>3, <1>4

LEMMA DrainStep ==
  LifecycleTypeOK /\ StageInv /\ DrainInv /\ [LifecycleNext]_processVars => DrainInv'
  <1> SUFFICES ASSUME LifecycleTypeOK, StageInv, DrainInv,
                      [LifecycleNext]_processVars
               PROVE  DrainInv'
    OBVIOUS
  <1> USE DEF vars, fetchVars, flushVars, cacheVars, mainVars
  <1>1. CASE ReceiveSignal
    BY <1>1, DrainSignal
  <1>2. CASE CollectorStep
    <2>1. UNCHANGED <<bufferedThen, exit>> /\ exit = "none"
      BY <1>2 DEF CollectorStep, Working, LifecycleTypeOK
    <2>2. CASE Fetch
      BY <2>1, <2>2, DrainFetch
    <2>3. CASE FlushTick \/ FlusherStop \/ Filter \/ Insert
      BY <2>1, <2>3, DrainFlush
    <2>4. CASE RefreshTokens \/ RefresherStop \/ FetcherStop
      <3>1. UNCHANGED <<cancelled, flusher, finalFlush, filtered, built, snaps, buffer>>
        BY <2>4 DEF RefreshTokens, RefresherStop, FetcherStop
      <3> QED BY <2>1, <3>1 DEF DrainInv
    <2> QED BY <1>2, <2>2, <2>3, <2>4 DEF CollectorStep
  <1>3. CASE GracefulExit
    <2>1. Stopped /\ Stopped' /\ UNCHANGED <<vars, bufferedThen>>
      BY <1>3 DEF GracefulExit, Stopped
    <2> QED BY <2>1 DEF DrainInv
  <1>4. CASE \/ Signal \/ Connects \/ ConnectFails \/ StartupInterrupted
             \/ RetryConnect \/ Launch \/ Register \/ ScannerStop
             \/ TimeoutExit \/ StoreClosed \/ Gone \/ UNCHANGED processVars
    <2>1. /\ UNCHANGED <<vars, bufferedThen>>
          /\ exit' = exit \/ exit' \in {"startup", "timeout"}
      BY <1>4 DEF Signal, Connects, ConnectFails, StartupInterrupted, RetryConnect,
                  Launch, Register, ScannerStop, TimeoutExit, StoreClosed, Gone,
                  processVars
    <2> QED BY <2>1 DEF DrainInv, Stopped
  <1> QED BY <1>1, <1>2, <1>3, <1>4 DEF LifecycleNext

(* When every goroutine has returned only the buffer still holds snapshots. *)
LEMMA StoppedHolds ==
  ASSUME LifecycleTypeOK, StageInv, DrainInv, Stopped
  PROVE  Elements(Waiting) \cup Elements(filtered) = Elements(buffer)
  <1>1. toFlush = <<>> /\ snaps = <<>> /\ filtered = <<>>
    BY DEF Stopped, StageInv, HoldersInv, DrainInv
  <1>2. /\ toFlush \in Seq(Snapshot) /\ buffer \in Seq(Snapshot)
        /\ snaps \in Seq(Snapshot)
    BY DEF LifecycleTypeOK, TypeOK
  <1>3. toFlush \o buffer \in Seq(Snapshot)
    BY <1>2, ConcatProperties
  <1>4. Elements(toFlush \o buffer) = Elements(toFlush) \cup Elements(buffer)
    BY <1>2, ConcatElements
  <1>5. Elements((toFlush \o buffer) \o snaps)
          = Elements(toFlush \o buffer) \cup Elements(snaps)
    BY <1>2, <1>3, ConcatElements
  <1> QED BY <1>1, <1>4, <1>5, EmptyFacts DEF Waiting

(* Shutdown: when the process ends gracefully, none of the snapshots that   *)
(* were buffered when the signal came is still in memory, whatever was      *)
(* fetched, flushed or failed in between.                                   *)
THEOREM SignalledBooksAreFlushed == LifecycleSpec => []SignalledBooksLeave
  <1>1. LifecycleTypeOK /\ StageInv /\ DrainInv => SignalledBooksLeave
    <2> SUFFICES ASSUME LifecycleTypeOK, StageInv, DrainInv, exit = "graceful"
                 PROVE  bufferedThen \cap
                          Ids(Elements(Waiting) \cup Elements(filtered)) = {}
      BY DEF SignalledBooksLeave
    <2>1. Stopped /\ bufferedThen \cap Ids(Elements(buffer)) = {}
      BY DEF DrainInv, Stopped
    <2> QED BY <2>1, StoppedHolds
  <1> QED
    BY <1>1, DrainInit, DrainStep, ProcessInvariant, PTL DEF LifecycleSpec
=============================================================================
