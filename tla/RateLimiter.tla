----------------------------- MODULE RateLimiter -----------------------------
(***************************************************************************)
(* The rate limiter of an API client (internal/api/ratelimit.go).  Worker  *)
(* goroutines that share a client call Wait before each request.  Wait     *)
(* takes the limiter's semaphore, a Go channel of capacity one that serves *)
(* blocked senders in order of arrival, and holds it while it sleeps.      *)
(*                                                                         *)
(* Time is relative: elapsed is the time since lastSent and stops at       *)
(* MinDelay, beyond which Wait never distinguishes it; a timer counts down *)
(* to zero.  Time may pass between any two steps of Wait.                  *)
(*                                                                         *)
(* Operators named Bug... are mistakes the mutation runs put in place of   *)
(* the operator they precede.                                              *)
(***************************************************************************)
EXTENDS Integers, Sequences

CONSTANTS
    Callers,         \* goroutines that share the limiter
    NoCaller,        \* nobody holds the semaphore
    MinDelay         \* minDelay, in ticks

ASSUME RateLimiterAssumption ==
    /\ NoCaller \notin Callers
    /\ MinDelay \in Nat

VARIABLES
    cancelled,       \* ctx.Done() is closed
    queue,           \* callers blocked on r.mu, in order of arrival
    holder,          \* the caller inside Wait that has sent to r.mu
    step,            \* where it is: "free", "check", "arm", "sleep", "stamp"
    sleep,           \* its sleep duration; once armed, what is left of it
    elapsed          \* time since lastSent, at most MinDelay

vars == <<cancelled, queue, holder, step, sleep, elapsed>>

TypeOK ==
    /\ cancelled \in BOOLEAN
    /\ queue \in Seq(Callers)
    /\ holder \in Callers \cup {NoCaller}
    /\ step \in {"free", "check", "arm", "sleep", "stamp"}
    /\ step = "free" <=> holder = NoCaller
    /\ sleep \in 0..MinDelay
    /\ elapsed \in 0..MinDelay

(* lastSent is the zero time: any delay has passed since. *)
Init ==
    /\ cancelled = FALSE
    /\ queue = <<>>
    /\ holder = NoCaller /\ step = "free"
    /\ sleep = 0 /\ elapsed = MinDelay

Queued == {queue[i] : i \in DOMAIN queue}

(* The caller is inside Wait. *)
Waits(c) == c \in Queued \/ c = holder

Call(c) ==
    /\ ~Waits(c)
    /\ queue' = Append(queue, c)
    /\ UNCHANGED <<cancelled, holder, step, sleep, elapsed>>

(* r.mu <- struct{}{}: not interrupted by the context. *)
Enter ==
    /\ holder = NoCaller /\ queue # <<>>
    /\ holder' = Head(queue) /\ queue' = Tail(queue)
    /\ step' = "check"
    /\ UNCHANGED <<cancelled, sleep, elapsed>>

BugRemaining == MinDelay - elapsed - 1
Remaining == MinDelay - elapsed

(* elapsed is read and the sleep computed; the context is not consulted when *)
(* the delay has already passed.                                            *)
Check ==
    /\ step = "check"
    /\ IF elapsed < MinDelay
       THEN step' = "arm" /\ sleep' = Remaining
       ELSE step' = "stamp" /\ UNCHANGED sleep
    /\ UNCHANGED <<cancelled, queue, holder, elapsed>>

(* time.After starts the timer, some time after elapsed was read. *)
Arm ==
    /\ step = "arm"
    /\ step' = "sleep"
    /\ UNCHANGED <<cancelled, queue, holder, sleep, elapsed>>

(* The select, when the timer has fired. *)
Fire ==
    /\ step = "sleep" /\ sleep = 0
    /\ step' = "stamp"
    /\ UNCHANGED <<cancelled, queue, holder, sleep, elapsed>>

(* The deferred receive from r.mu. *)
BugRelease == step' = "free" /\ UNCHANGED holder
Release == step' = "free" /\ holder' = NoCaller

(* The select, when the context is cancelled: Wait returns its error. *)
BugInterrupt ==
    /\ step = "sleep" /\ sleep = 0 /\ cancelled
    /\ Release
    /\ UNCHANGED <<cancelled, queue, sleep, elapsed>>
Interrupt ==
    /\ step = "sleep" /\ cancelled
    /\ Release /\ sleep' = 0
    /\ UNCHANGED <<cancelled, queue, elapsed>>

(* lastSent is set and Wait returns: the caller may send its request. *)
Grant ==
    /\ step = "stamp"
    /\ elapsed' = 0
    /\ Release
    /\ UNCHANGED <<cancelled, queue, sleep>>

Cancel ==
    /\ ~cancelled
    /\ cancelled' = TRUE
    /\ UNCHANGED <<queue, holder, step, sleep, elapsed>>

(* One unit of time passes. *)
Tick ==
    /\ elapsed < MinDelay \/ (step = "sleep" /\ sleep > 0)
    /\ elapsed' = IF elapsed < MinDelay THEN elapsed + 1 ELSE elapsed
    /\ sleep' = IF step = "sleep" /\ sleep > 0 THEN sleep - 1 ELSE sleep
    /\ UNCHANGED <<cancelled, queue, holder, step>>

(* What the goroutine inside Wait does without anyone's help. *)
Proceed == Enter \/ Check \/ Arm \/ Interrupt \/ Fire \/ Grant

Next == (\E c \in Callers : Call(c)) \/ Proceed \/ Cancel \/ Tick

Spec == Init /\ [][Next]_vars

TimePasses == WF_vars(Tick)

-----------------------------------------------------------------------------
(* "enforces a minimum delay": lastSent is set anew, and so a request        *)
(* allowed, only when MinDelay has passed since it was set before, however  *)
(* the callers interleave and whatever delays them between two steps.       *)
GrantsSpaced == [][elapsed' < elapsed => elapsed = MinDelay]_vars

(* As long as time passes every call of Wait returns. *)
WaitReturns == TimePasses => \A c \in Callers : Waits(c) ~> ~Waits(c)

(* No time needs to pass for Wait to return to everyone once the context is *)
(* cancelled: nobody is left sleeping, or queued behind a sleeper.           *)
CancelReleases == \A c \in Callers : (cancelled /\ Waits(c)) ~> ~Waits(c)
=============================================================================
