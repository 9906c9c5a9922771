-------------------------- MODULE RateLimiterProofs --------------------------
(***************************************************************************)
(* Proofs about RateLimiter for any set of callers and any minimum delay.  *)
(***************************************************************************)
EXTENDS RateLimiter, SequenceTheorems, TLAPS

(* What is left to sleep covers what is left of the delay, and lastSent is  *)
(* about to be set only when nothing is left of it.                         *)
SleepCovers ==
    /\ step \in {"arm", "sleep"} => elapsed + sleep >= MinDelay
    /\ step = "stamp" => elapsed = MinDelay

LEMMA TypeStep == TypeOK /\ [Next]_vars => TypeOK'
  <1> USE RateLimiterAssumption
  <1> SUFFICES ASSUME TypeOK, [Next]_vars PROVE TypeOK'
    OBVIOUS
  <1>1. CASE \E c \in Callers : Call(c)
    <2>1. PICK c \in Callers : Call(c)
      BY <1>1
    <2>2. Append(queue, c) \in Seq(Callers)
      BY AppendProperties DEF TypeOK
    <2> QED BY <2>1, <2>2 DEF Call, TypeOK
  <1>2. CASE Enter
    <2>1. Head(queue) \in Callers /\ Tail(queue) \in Seq(Callers)
      BY <1>2, HeadTailProperties DEF Enter, TypeOK
    <2>2. Head(queue) # NoCaller
      BY <2>1
    <2> QED BY <1>2, <2>1, <2>2 DEF Enter, TypeOK
  <1>3. CASE Check
    <2>1. elapsed < MinDelay => Remaining \in 0..MinDelay
      BY DEF TypeOK, Remaining
    <2> QED BY <1>3, <2>1 DEF Check, TypeOK
  <1>4. CASE Arm
    BY <1>4 DEF Arm, TypeOK
  <1>5. CASE Interrupt
    BY <1>5 DEF Interrupt, Release, TypeOK
  <1>6. CASE Fire
    BY <1>6 DEF Fire, TypeOK
  <1>7. CASE Grant
    BY <1>7 DEF Grant, Release, TypeOK
  <1>8. CASE Cancel
    BY <1>8 DEF Cancel, TypeOK
  <1>9. CASE Tick
    BY <1>9 DEF Tick, TypeOK
  <1>10. CASE UNCHANGED vars
    BY <1>10 DEF vars, TypeOK
  <1> QED
    BY <1>1, <1>2, <1>3, <1>4, <1>5, <1>6, <1>7, <1>8, <1>9, <1>10
       DEF Next, Proceed

LEMMA TypeInit == Init => TypeOK
  <1>1. <<>> \in Seq(Callers)
    BY EmptySeq
  <1> SUFFICES ASSUME Init PROVE TypeOK
    OBVIOUS
  <1>2. queue \in Seq(Callers)
    BY <1>1 DEF Init
  <1>3. sleep \in 0..MinDelay /\ elapsed \in 0..MinDelay
    BY RateLimiterAssumption DEF Init
  <1>4. /\ cancelled \in BOOLEAN /\ holder \in Callers \cup {NoCaller}
        /\ step \in {"free", "check", "arm", "sleep", "stamp"}
        /\ step = "free" <=> holder = NoCaller
    BY DEF Init
  <1> QED BY <1>2, <1>3, <1>4 DEF TypeOK

LEMMA SleepStep == TypeOK /\ SleepCovers /\ [Next]_vars => SleepCovers'
  <1> SUFFICES ASSUME TypeOK, SleepCovers, [Next]_vars PROVE SleepCovers'
    OBVIOUS
  <1> USE RateLimiterAssumption DEF TypeOK, SleepCovers
  <1>1. CASE \E c \in Callers : Call(c)
    BY <1>1 DEF Call
  <1>2. CASE Enter
    BY <1>2 DEF Enter
  <1>3. CASE Check
    BY <1>3 DEF Check, Remaining
  <1>4. CASE Arm
    BY <1>4 DEF Arm
  <1>5. CASE Interrupt
    BY <1>5 DEF Interrupt, Release
  <1>6. CASE Fire
    BY <1>6 DEF Fire
  <1>7. CASE Grant
    BY <1>7 DEF Grant, Release
  <1>8. CASE Cancel
    BY <1>8 DEF Cancel
  <1>9. CASE Tick
    BY <1>9 DEF Tick
  <1>10. CASE UNCHANGED vars
    BY <1>10 DEF vars
  <1> QED
    BY <1>1, <1>2, <1>3, <1>4, <1>5, <1>6, <1>7, <1>8, <1>9, <1>10
       DEF Next, Proceed

LEMMA SleepInvariant == Spec => [](TypeOK /\ SleepCovers)
  <1>1. Init => SleepCovers
    BY DEF Init, SleepCovers
  <1> QED BY <1>1, TypeInit, TypeStep, SleepStep, PTL DEF Spec

(* Type correctness: in particular the semaphore is held exactly while a    *)
(* caller is between the send and the receive on r.mu.                      *)
THEOREM LimiterTypeCorrect == Spec => []TypeOK
  BY SleepInvariant, PTL

(* Pacing: for any number of workers sharing a limiter, MinDelay passes     *)
(* between two successive grants, although the time is read, the timer      *)
(* armed and lastSent stamped in separate steps.                            *)
THEOREM LimiterPaces == Spec => GrantsSpaced
  <1>1. TypeOK /\ SleepCovers /\ [Next]_vars =>
          [elapsed' < elapsed => elapsed = MinDelay]_vars
    <2> SUFFICES ASSUME TypeOK, SleepCovers, Next, elapsed' < elapsed
                 PROVE  elapsed = MinDelay
      OBVIOUS
    <2>1. CASE Grant
      BY <2>1 DEF Grant, SleepCovers
    <2>2. CASE elapsed' = elapsed
      BY <2>2 DEF TypeOK
    <2>3. CASE Tick
      BY <2>3, RateLimiterAssumption DEF Tick, TypeOK
    <2> QED
      BY <2>1, <2>2, <2>3
         DEF Next, Proceed, Call, Enter, Check, Arm, Interrupt, Fire, Cancel
  <1> QED BY <1>1, SleepInvariant, PTL DEF Spec, GrantsSpaced
=============================================================================
