------------------------------ MODULE Lifecycle ------------------------------
(***************************************************************************)
(* The process (main.go) around the collector: connecting to the database, *)
(* starting the workers, the two signal channels, the shutdown and its     *)
(* time limit.  It composes main with the goroutines of Collector; the two *)
(* workers of the scanner appear as goroutines that end after a            *)
(* cancellation.                                                           *)
(*                                                                         *)
(* From its first step on the process has asked for SIGINT and SIGTERM to  *)
(* be sent to a channel, so they do not kill it.  A channel holds one      *)
(* signal; os/signal drops what does not fit.                              *)
(***************************************************************************)
EXTENDS Collector

CONSTANT MaxSignals      \* bound on the signals sent to the process

ASSUME LifecycleAssumption == MaxSignals \in Nat

VARIABLES
    main,                \* where main is, see TypeOK
    earlySigCh,          \* signals waiting in earlySigCh
    sigCh,               \* signals waiting in sigCh
    scanning,            \* the scanner's running goroutines
    exit,                \* how the process ended
    \* History, read by no action but the bound on signals:
    signals,             \* signals sent so far
    bufferedThen         \* ids in the buffer when the context was cancelled

mainVars == <<main, earlySigCh, sigCh, scanning, exit, signals, bufferedThen>>
processVars == <<vars, mainVars>>

Workers == {"discovery", "refresh"}

LifecycleTypeOK ==
    /\ TypeOK
    /\ main \in {"connecting", "backoff", "starting", "launched", "waiting",
                 "draining", "closing", "exited"}
    /\ earlySigCh \in 0..1 /\ sigCh \in 0..1
    /\ scanning \subseteq Workers
    /\ exit \in {"none", "startup", "graceful", "timeout"}
    /\ exit = "none" <=> main # "exited"
    /\ signals \in 0..MaxSignals
    /\ bufferedThen \subseteq 1..MaxSnapshots

LifecycleInit ==
    /\ Init
    /\ main = "connecting"
    /\ earlySigCh = 0 /\ sigCh = 0
    /\ scanning = {}
    /\ exit = "none"
    /\ signals = 0 /\ bufferedThen = {}

-----------------------------------------------------------------------------
(* A channel of capacity one that takes a signal if it has room. *)
BugDeliver(ch) == ch + 1
Deliver(ch) == IF ch = 0 THEN 1 ELSE ch

(* sigCh is subscribed until the process ends. *)
Registered == main \in {"waiting", "draining", "closing"}

Signal ==
    /\ main # "exited" /\ signals < MaxSignals
    /\ signals' = signals + 1
    /\ earlySigCh' = Deliver(earlySigCh)
    /\ sigCh' = IF Registered THEN Deliver(sigCh) ELSE sigCh
    /\ UNCHANGED <<vars, main, scanning, exit, bufferedThen>>

(* NewPostgresStore, with a context that is never cancelled. *)
ConnectFails ==
    /\ main = "connecting"
    /\ main' = "backoff"
    /\ UNCHANGED <<vars, earlySigCh, sigCh, scanning, exit, signals, bufferedThen>>

Connects ==
    /\ main = "connecting"
    /\ main' = "starting"
    /\ UNCHANGED <<vars, earlySigCh, sigCh, scanning, exit, signals, bufferedThen>>

(* The select between two attempts; with both cases ready either is taken. *)
StartupInterrupted ==
    /\ main = "backoff" /\ earlySigCh = 1
    /\ main' = "exited" /\ exit' = "startup"
    /\ earlySigCh' = 0
    /\ UNCHANGED <<vars, sigCh, scanning, signals, bufferedThen>>

RetryConnect ==
    /\ main = "backoff"
    /\ main' = "connecting"
    /\ UNCHANGED <<vars, earlySigCh, sigCh, scanning, exit, signals, bufferedThen>>

(* sc.Run and bookCollector.Run. *)
Launch ==
    /\ main = "starting"
    /\ main' = "launched" /\ scanning' = Workers
    /\ UNCHANGED <<vars, earlySigCh, sigCh, exit, signals, bufferedThen>>

(* signal.Notify(sigCh, ...). *)
Register ==
    /\ main = "launched"
    /\ main' = "waiting"
    /\ UNCHANGED <<vars, earlySigCh, sigCh, scanning, exit, signals, bufferedThen>>

ReceiveSignal ==
    /\ main = "waiting" /\ sigCh = 1
    /\ Cancel
    /\ main' = "draining" /\ sigCh' = 0
    /\ bufferedThen' = Ids(Elements(buffer))
    /\ UNCHANGED <<earlySigCh, scanning, exit, signals>>

ScannerStop ==
    /\ main # "exited" /\ cancelled
    /\ \E w \in scanning : scanning' = scanning \ {w}
    /\ UNCHANGED <<vars, main, earlySigCh, sigCh, exit, signals, bufferedThen>>

(* sc.Wait() and bookCollector.Wait() return. *)
GracefulExit ==
    /\ main = "draining" /\ Stopped /\ scanning = {}
    /\ main' = "exited" /\ exit' = "graceful"
    /\ UNCHANGED <<vars, earlySigCh, sigCh, scanning, signals, bufferedThen>>

(* 30 seconds have passed since the cancellation: main returns into its     *)
(* deferred calls.                                                          *)
TimeoutExit ==
    /\ main = "draining"
    /\ main' = "closing"
    /\ UNCHANGED <<vars, earlySigCh, sigCh, scanning, exit, signals, bufferedThen>>

(* store.Close() returns when the last connection in use is given back;     *)
(* until then the goroutines go on.  A goroutine that is not at the         *)
(* database, or has yet to get a connection, is cut off.                    *)
StoreClosed ==
    /\ main = "closing"
    /\ main' = "exited" /\ exit' = "timeout"
    /\ UNCHANGED <<vars, earlySigCh, sigCh, scanning, signals, bufferedThen>>

(* The collector's goroutines run from their start to the end of the        *)
(* process; only main cancels the context.                                  *)
Working ==
    /\ main \in {"launched", "waiting", "draining", "closing"}
    /\ UNCHANGED mainVars

CollectorStep ==
    \/ Working /\ (RefreshTokens \/ RefresherStop)
    \/ Working /\ (Fetch \/ FetcherStop)
    \/ Working /\ (FlushTick \/ FlusherStop \/ Filter \/ Insert)

Gone == main = "exited" /\ UNCHANGED processVars

LifecycleNext ==
    \/ Signal
    \/ Connects \/ ConnectFails \/ StartupInterrupted \/ RetryConnect
    \/ Launch \/ Register \/ ReceiveSignal
    \/ ScannerStop \/ GracefulExit \/ TimeoutExit \/ StoreClosed
    \/ CollectorStep
    \/ Gone

(***************************************************************************)
(* Goroutines run.  Fetch and Insert are fair because every HTTP request   *)
(* and every query ends, if only by the client's timeout, the dead         *)
(* connection or the cancelled context; so does every attempt to connect.  *)
(* The select loops need strong fairness: a tick can win again and again,  *)
(* but Go picks among ready cases at random.  The database may refuse      *)
(* connections for ever.  Nothing is assumed of the 30 seconds, and of the *)
(* closing of the pool only that it ends when no goroutine is left.        *)
(***************************************************************************)
MainProceeds ==
    \/ Connects \/ ConnectFails \/ RetryConnect
    \/ Launch \/ Register \/ ReceiveSignal \/ GracefulExit
    \/ Stopped /\ scanning = {} /\ StoreClosed

LifecycleFairness ==
    /\ WF_processVars(MainProceeds) /\ SF_processVars(StartupInterrupted)
    /\ WF_processVars(ScannerStop)
    /\ WF_processVars(Working /\ RefresherStop)
    /\ WF_processVars(Working /\ fetcher # "idle" /\ Fetch)
    /\ SF_processVars(Working /\ FetcherStop)
    /\ WF_processVars(Working /\ (FlushTick \/ Filter \/ Insert))
    /\ SF_processVars(Working /\ FlusherStop)

LifecycleSpec ==
    LifecycleInit /\ [][LifecycleNext]_processVars /\ LifecycleFairness

-----------------------------------------------------------------------------
(* A signal that has reached sigCh ends the process, without the help of    *)
(* the 30 second limit: every goroutine notices the cancelled context from  *)
(* wherever it is, and main's two Waits return.                             *)
SignalHeeded == sigCh = 1 /\ ~cancelled ~> main = "exited"

(* The buffer is emptied towards the database, again and again, unless the  *)
(* final flush has already swapped it or the process ends first: the        *)
(* fetcher never finds it full for good.                                    *)
BufferIsDrained ==
    buffer # <<>> /\ flusher # "stopped" /\ ~finalFlush
        ~> buffer = <<>> \/ main = "exited"

(* A graceful exit leaves nothing behind that was buffered when the signal  *)
(* came: the final flush, or one in progress, took it to the insert.        *)
SignalledBooksLeave ==
    exit = "graceful" =>
        bufferedThen \cap Ids(Elements(Waiting) \cup Elements(filtered)) = {}

(* "Setup early signal channel for interrupt during DB connect": a signal   *)
(* sent while the process is starting up ends it.                           *)
StartupSignalHeeded ==
    main \in {"connecting", "backoff"} /\ earlySigCh = 1 ~> main = "exited"
=============================================================================
