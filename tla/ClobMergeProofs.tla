--------------------------- MODULE ClobMergeProofs ---------------------------
(***************************************************************************)
(* Proofs about ClobMerge, for any callers, any lists of markets and any   *)
(* batch sizes: the loop uses the limiter as RateLimiter describes it, and *)
(* the hashes it merges are right wherever the batches cut the list.       *)
(***************************************************************************)
EXTENDS ClobMerge, RateLimiterProofs, FiniteSetTheorems

LEMMA MergeStep == MergeNext => [Next]_vars
  <1> USE ClobMergeAssumption
  <1>1. Ask => Next
    BY DEF Ask, Next
  <1>2. Limited => Next
    BY DEF Limited, Next, Proceed
  <1>3. Interrupted => Next
    BY DEF Interrupted, Next, Proceed
  <1>4. Elsewhere => Next
    BY DEF Elsewhere, Next, Proceed
  <1> QED
    BY <1>1, <1>2, <1>3, <1>4
       DEF MergeNext, Work, Begin, Abandon, RequestFails, RequestAnswered,
           BatchesDone, UpsertMerged

LEMMA MergeStepOrStutter == [MergeNext]_mergeVars => [Next]_vars
  BY MergeStep DEF mergeVars

(* The loop together with the other callers implements the limiter: each    *)
(* request is preceded by a whole call of Wait, and nothing the loop does   *)
(* disturbs it.                                                             *)
THEOREM MergeUsesLimiter == MergeSpec => Spec
  <1>1. MergeInit => Init
    BY DEF MergeInit
  <1> QED BY <1>1, MergeStepOrStutter, PTL DEF MergeSpec, Spec

(* Pacing, of the requests of the loop among those of the other callers.    *)
THEOREM MergePaced == MergeSpec => GrantsSpaced
  BY MergeUsesLimiter, LimiterPaces, PTL

-----------------------------------------------------------------------------
(* A caller is inside Wait at most once. *)
QueuedOnce ==
    /\ \A i, j \in DOMAIN queue : queue[i] = queue[j] => i = j
    /\ holder \notin Queued

LEMMA QueueEnter ==
  ASSUME TypeOK, QueuedOnce, Enter
  PROVE  /\ Queued = Queued' \cup {holder'} /\ holder' \notin Queued'
         /\ \A i, j \in DOMAIN queue' : queue'[i] = queue'[j] => i = j
  <1>1. /\ queue # <<>> /\ queue \in Seq(Callers)
        /\ queue' = Tail(queue) /\ holder' = Head(queue)
    BY DEF Enter, TypeOK
  <1>2. /\ Len(queue) \in Nat \ {0} /\ DOMAIN queue = 1..Len(queue)
        /\ Head(queue) = queue[1]
    BY <1>1, LenProperties, EmptySeq, HeadTailProperties
  <1>3. /\ Len(queue') = Len(queue) - 1 /\ DOMAIN queue' = 1..(Len(queue) - 1)
        /\ \A i \in 1..(Len(queue) - 1) : queue'[i] = queue[i + 1]
    BY <1>1, <1>2, HeadTailProperties, LenProperties
  <1>4. \A i \in 2..Len(queue) : i - 1 \in DOMAIN queue' /\ queue'[i - 1] = queue[i]
    <2> SUFFICES ASSUME NEW i \in 2..Len(queue)
                 PROVE  i - 1 \in DOMAIN queue' /\ queue'[i - 1] = queue[i]
      OBVIOUS
    <2>1. i - 1 \in 1..(Len(queue) - 1) /\ (i - 1) + 1 = i
      BY <1>2
    <2> QED BY <1>3, <2>1
  <1>5. Queued \subseteq Queued' \cup {holder'}
    <2> SUFFICES ASSUME NEW i \in 1..Len(queue), i # 1
                 PROVE  queue[i] \in Queued'
      BY <1>1, <1>2 DEF Queued
    <2>1. i \in 2..Len(queue)
      BY <1>2
    <2> QED BY <1>4, <2>1 DEF Queued
  <1>6. \A i \in DOMAIN queue' : i + 1 \in DOMAIN queue /\ i + 1 # 1
                                  /\ queue'[i] = queue[i + 1]
    BY <1>2, <1>3
  <1>7. Queued' \subseteq Queued /\ holder' \in Queued
    BY <1>1, <1>2, <1>6 DEF Queued
  <1>8. holder' \notin Queued'
    BY <1>1, <1>2, <1>6 DEF QueuedOnce, Queued
  <1>9. ASSUME NEW i \in DOMAIN queue', NEW j \in DOMAIN queue', queue'[i] = queue'[j]
        PROVE  i = j
    <2>1. i + 1 = j + 1
      BY <1>6, <1>9 DEF QueuedOnce
    <2> QED BY <1>3, <2>1
  <1> QED BY <1>5, <1>7, <1>8, <1>9

LEMMA QueueCall ==
  ASSUME TypeOK, QueuedOnce, NEW c \in Callers, Call(c)
  PROVE  QueuedOnce' /\ Queued' = Queued \cup {c}
  <1>1. /\ queue \in Seq(Callers) /\ queue' = Append(queue, c) /\ holder' = holder
        /\ c \notin Queued /\ c # holder
    BY DEF Call, Waits, TypeOK
  <1>2. /\ Len(queue) \in Nat /\ DOMAIN queue = 1..Len(queue)
        /\ DOMAIN queue' = 1..(Len(queue) + 1)
        /\ queue'[Len(queue) + 1] = c
        /\ \A i \in 1..Len(queue) : queue'[i] = queue[i]
    BY <1>1, LenProperties, AppendProperties
  <1>3. Queued' = Queued \cup {c}
    <2>1. \A i \in DOMAIN queue' : i \in DOMAIN queue \/ i = Len(queue) + 1
      BY <1>2
    <2>2. \A i \in DOMAIN queue : i \in DOMAIN queue'
      BY <1>2
    <2>3. Len(queue) + 1 \in DOMAIN queue'
      BY <1>2
    <2> QED BY <1>2, <2>1, <2>2, <2>3 DEF Queued
  <1>4. ASSUME NEW i \in DOMAIN queue', NEW j \in DOMAIN queue', queue'[i] = queue'[j]
        PROVE  i = j
    <2>1. \A k \in 1..Len(queue) : queue[k] # c
      BY <1>1, <1>2 DEF Queued
    <2> QED BY <1>2, <1>4, <2>1 DEF QueuedOnce
  <1> QED BY <1>1, <1>3, <1>4 DEF QueuedOnce

LEMMA QueueStep == TypeOK /\ QueuedOnce /\ [Next]_vars => QueuedOnce'
  <1> SUFFICES ASSUME TypeOK, QueuedOnce, [Next]_vars PROVE QueuedOnce'
    OBVIOUS
  <1>1. CASE \E c \in Callers : Call(c)
    BY <1>1, QueueCall
  <1>2. CASE Enter
    BY <1>2, QueueEnter DEF QueuedOnce
  <1>3. CASE Interrupt \/ Grant
    <2>1. NoCaller \notin Queued
      BY RateLimiterAssumption, LenProperties, ElementOfSeq DEF TypeOK, Queued
    <2> QED BY <1>3, <2>1 DEF Interrupt, Grant, Release, QueuedOnce, Queued
  <1>4. CASE Check \/ Arm \/ Fire \/ Cancel \/ Tick \/ UNCHANGED vars
    <2>1. UNCHANGED <<queue, holder>>
      BY <1>4 DEF Check, Arm, Fire, Cancel, Tick, vars
    <2> QED BY <2>1 DEF QueuedOnce, Queued
  <1> QED BY <1>1, <1>2, <1>3, <1>4 DEF Next, Proceed

-----------------------------------------------------------------------------
(* The hashes the loop merges. *)

Loops == {"batch", "wait", "request", "upsert"}

(* In a cycle each market has the hash its books so far call for, and books *)
(* came only for the token ids of earlier batches.                          *)
MergedSoFar ==
    loop \in Loops =>
        /\ lastBookHash = [m \in DOMAIN markets |-> HashOf(books[m])]
        /\ \A m \in DOMAIN markets, s \in Sides :
               books[m][s] # "none" => Place([market |-> m, side |-> s]) < pos

MergeInv == TypeOK /\ QueuedOnce /\ MergeTypeOK /\ MergedSoFar

LEMMA MarketsFinite ==
  ASSUME MergeTypeOK
  PROVE  \E n \in Nat : DOMAIN markets = 1..n
  <1>1. markets \in Seq(SUBSET Sides)
    BY ClobMergeAssumption, EmptySeq DEF MergeTypeOK, Sides
  <1> QED BY <1>1, LenProperties

(* Places are numbers: there are finitely many token ids. *)
LEMMA PlaceType ==
  ASSUME MergeTypeOK, NEW t
  PROVE  Place(t) \in Nat
  <1>1. PICK n \in Nat : DOMAIN markets = 1..n
    BY MarketsFinite
  <1>2. IsFiniteSet((1..n) \X Sides)
    <2>1. IsFiniteSet(1..n)
      BY FS_Interval
    <2>2. IsFiniteSet({"yes"}) /\ IsFiniteSet({"no"})
      BY FS_Singleton
    <2>3. IsFiniteSet({"yes"} \cup {"no"}) /\ {"yes"} \cup {"no"} = Sides
      BY <2>2, FS_Union DEF Sides
    <2> QED BY <2>1, <2>3, FS_Product
  <1> DEFINE f == [u \in TokenIDs |-> <<u.market, u.side>>]
  <1>3. f \in Injection(TokenIDs, (1..n) \X Sides)
    BY <1>1 DEF TokenIDs, Injection, IsInjective
  <1>4. IsFiniteSet(TokenIDs)
    BY <1>2, <1>3, FS_Injection
  <1>5. IsFiniteSet({u \in TokenIDs : UpTo(u, t)})
    BY <1>4, FS_Subset
  <1> QED BY <1>5, FS_CardinalityType DEF Place

(* One market's part of a batch that was answered. *)
LEMMA MergeMarketFacts ==
  ASSUME NEW book \in [Sides -> Answer], NEW yes \in Answer, NEW no \in Answer,
         yes # "none" => book["yes"] = "none",
         no # "none" => book["no"] = "none",
         NEW merged \in [Sides -> Answer],
         merged["yes"] = IF yes = "none" THEN book["yes"] ELSE yes,
         merged["no"] = IF no = "none" THEN book["no"] ELSE no
  PROVE  /\ MergeMarket(HashOf(book), yes, no) = HashOf(merged)
         /\ HashOf(merged) \in {"none", "blank", "yes", "no"}
  <1>1. book["yes"] \in Answer /\ book["no"] \in Answer
    BY DEF Sides
  <1> QED BY <1>1 DEF MergeMarket, HashOf, Answer

(* A step of the limiter leaves the loop's waiting alone unless it lets the *)
(* worker itself in or out.                                                 *)
LEMMA WaitsEnter ==
  ASSUME TypeOK, QueuedOnce, Enter, NEW c \in Callers
  PROVE  Waits(c)' <=> Waits(c)
  <1>1. holder = NoCaller /\ c # NoCaller
    BY RateLimiterAssumption DEF Enter
  <1> QED BY <1>1, QueueEnter DEF Waits

LEMMA WaitsCall ==
  ASSUME TypeOK, QueuedOnce, NEW d \in Callers, Call(d), NEW c \in Callers
  PROVE  Waits(c)' <=> Waits(c) \/ c = d
  <1>1. holder' = holder
    BY DEF Call
  <1> QED BY <1>1, QueueCall DEF Waits

LEMMA WaitsRelease ==
  ASSUME QueuedOnce, Grant \/ Interrupt, NEW c \in Callers
  PROVE  Waits(c)' <=> Waits(c) /\ c # holder
  <1>1. holder' = NoCaller /\ queue' = queue /\ c # NoCaller
    BY RateLimiterAssumption DEF Grant, Interrupt, Release
  <1> QED BY <1>1 DEF Waits, Queued, QueuedOnce

LEMMA WaitsSame ==
  ASSUME UNCHANGED <<queue, holder>>, NEW c
  PROVE  Waits(c)' <=> Waits(c)
  BY DEF Waits, Queued

(* The loop's variables in the steps that leave the cycle alone. *)
LEMMA CycleSame ==
  ASSUME MergeInv, UNCHANGED cycleVars, batchSize' = batchSize,
         loop' \in Loops \cup {"idle", "stopped"},
         loop' \in Loops => loop \in Loops,
         loop' = "wait" <=> Waits(Worker)'
  PROVE  MergeTypeOK' /\ MergedSoFar'
  <1>1. UNCHANGED <<markets, pos, lastBookHash, books>>
    BY DEF cycleVars
  <1>2. MergeTypeOK'
    BY <1>1 DEF MergeInv, MergeTypeOK, Loops
  <1>3. \A t : Place(t)' = Place(t)
    BY <1>1 DEF Place, TokenIDs
  <1> QED BY <1>1, <1>2, <1>3 DEF MergeInv, MergedSoFar

(* On to the next batch, without an answer. *)
LEMMA NextBatchUnanswered ==
  ASSUME MergeInv, NextBatch, UNCHANGED <<batchSize, markets, lastBookHash, books>>,
         loop \in Loops, ~Waits(Worker)'
  PROVE  MergeTypeOK' /\ MergedSoFar'
  <1>1. /\ pos \in Nat \ {0} /\ batchSize \in Nat \ {0}
        /\ pos' = pos + batchSize /\ loop' = "batch"
    BY ClobMergeAssumption DEF MergeInv, MergeTypeOK, NextBatch
  <1>2. pos' \in Nat \ {0}
    BY <1>1
  <1>3. MergeTypeOK'
    BY <1>1, <1>2 DEF MergeInv, MergeTypeOK
  <1>4. \A t : Place(t)' = Place(t) /\ Place(t) \in Nat
    BY PlaceType DEF Place, TokenIDs, MergeInv
  <1>5. \A t : Place(t) < pos => Place(t)' < pos'
    BY <1>1, <1>4
  <1> QED BY <1>1, <1>3, <1>5 DEF MergeInv, MergedSoFar

LEMMA CycleOver ==
  ASSUME MergeInv, NoCycle, batchSize' = batchSize,
         loop' \in {"idle", "stopped"}, ~Waits(Worker)'
  PROVE  MergeTypeOK' /\ MergedSoFar'
  <1>1. /\ markets' = <<>> /\ lastBookHash' = <<>> /\ books' = <<>> /\ pos' = 1
    BY DEF NoCycle
  <1>2. \A T : <<>> \in [DOMAIN <<>> -> T]
    OBVIOUS
  <1>3. MergeTypeOK'
    BY <1>1, <1>2 DEF MergeInv, MergeTypeOK
  <1> QED BY <1>3 DEF MergedSoFar, Loops

LEMMA MergeBegin ==
  ASSUME MergeInv, Begin
  PROVE  MergeTypeOK' /\ MergedSoFar'
  <1>1. PICK list \in MarketLists :
           /\ markets' = list /\ pos' = 1
           /\ lastBookHash' = [m \in DOMAIN list |-> "none"]
           /\ books' = [m \in DOMAIN list |-> [s \in Sides |-> "none"]]
    BY DEF Begin
  <1>2. /\ loop' = "batch" /\ batchSize' = batchSize /\ ~Waits(Worker)'
    BY WaitsSame DEF Begin, MergeInv, MergeTypeOK, vars
  <1>3. [s \in Sides |-> "none"] \in [Sides -> Answer]
    BY DEF Answer
  <1>4. MergeTypeOK'
    BY <1>1, <1>2, <1>3 DEF MergeInv, MergeTypeOK
  <1>5. HashOf([s \in Sides |-> "none"]) = "none"
    BY DEF HashOf, Sides
  <1>6. lastBookHash' = [m \in DOMAIN markets' |-> HashOf(books'[m])]
    BY <1>1, <1>5
  <1> QED BY <1>1, <1>4, <1>6 DEF MergedSoFar

LEMMA MergeAnswered ==
  ASSUME MergeInv, RequestAnswered
  PROVE  MergeTypeOK' /\ MergedSoFar'
  <1> DEFINE Token(m, s) == [market |-> m, side |-> s]
  <1>1. PICK answer \in [Batch -> Answer] :
           LET Got(m, s) == IF Token(m, s) \in Batch THEN answer[Token(m, s)] ELSE "none"
           IN  /\ lastBookHash' = [m \in DOMAIN markets |->
                      MergeMarket(lastBookHash[m], Got(m, "yes"), Got(m, "no"))]
               /\ books' = [m \in DOMAIN markets |-> [s \in Sides |->
                      IF Got(m, s) = "none" THEN books[m][s] ELSE Got(m, s)]]
    BY DEF RequestAnswered
  <1> DEFINE Got(m, s) == IF Token(m, s) \in Batch THEN answer[Token(m, s)] ELSE "none"
  <1>2. /\ lastBookHash' = [m \in DOMAIN markets |->
              MergeMarket(lastBookHash[m], Got(m, "yes"), Got(m, "no"))]
        /\ books' = [m \in DOMAIN markets |-> [s \in Sides |->
              IF Got(m, s) = "none" THEN books[m][s] ELSE Got(m, s)]]
    BY <1>1
  <1>3. /\ loop = "request" /\ NextBatch /\ markets' = markets /\ batchSize' = batchSize
        /\ UNCHANGED <<queue, holder>>
    BY DEF RequestAnswered, vars
  <1>4. /\ pos \in Nat \ {0} /\ batchSize \in Nat \ {0}
        /\ pos' = pos + batchSize /\ pos' \in Nat \ {0} /\ loop' = "batch"
    BY <1>3, ClobMergeAssumption DEF MergeInv, MergeTypeOK, NextBatch
  <1>5. \A t : Place(t)' = Place(t) /\ Place(t) \in Nat
    BY <1>3, PlaceType DEF Place, TokenIDs, MergeInv
  <1>6. /\ \A m \in DOMAIN markets : books[m] \in [Sides -> Answer]
        /\ \A m \in DOMAIN markets : lastBookHash[m] = HashOf(books[m])
        /\ \A m \in DOMAIN markets, s \in Sides :
               books[m][s] # "none" => Place(Token(m, s)) < pos
    BY <1>3 DEF MergeInv, MergeTypeOK, MergedSoFar, Loops
  <1>7. \A m, s : /\ Got(m, s) \in Answer
                  /\ Got(m, s) # "none" => /\ pos <= Place(Token(m, s))
                                           /\ Place(Token(m, s)) < pos'
    BY <1>4 DEF Batch, Answer
  <1> HIDE DEF Got, Token
  <1>8. ASSUME NEW m \in DOMAIN markets
        PROVE  /\ books'[m] \in [Sides -> Answer]
               /\ lastBookHash'[m] = HashOf(books'[m])
               /\ HashOf(books'[m]) \in {"none", "blank", "yes", "no"}
               /\ \A s \in Sides : books'[m][s] # "none" => Place(Token(m, s)) < pos'
    <2>1. books'[m] = [s \in Sides |-> IF Got(m, s) = "none" THEN books[m][s] ELSE Got(m, s)]
      BY <1>2
    <2>2. books'[m] \in [Sides -> Answer]
      BY <1>6, <1>7, <2>1
    <2>3. \A s \in Sides : Got(m, s) # "none" => books[m][s] = "none"
      BY <1>4, <1>5, <1>6, <1>7
    <2>4. lastBookHash'[m] = MergeMarket(HashOf(books[m]), Got(m, "yes"), Got(m, "no"))
      BY <1>2, <1>6
    <2>5. "yes" \in Sides /\ "no" \in Sides
      BY DEF Sides
    <2>6. /\ books'[m]["yes"] = IF Got(m, "yes") = "none" THEN books[m]["yes"]
                                                          ELSE Got(m, "yes")
          /\ books'[m]["no"] = IF Got(m, "no") = "none" THEN books[m]["no"]
                                                        ELSE Got(m, "no")
      BY <2>1, <2>5
    <2>7. /\ MergeMarket(HashOf(books[m]), Got(m, "yes"), Got(m, "no")) = HashOf(books'[m])
          /\ HashOf(books'[m]) \in {"none", "blank", "yes", "no"}
      BY <1>6, <1>7, <2>2, <2>3, <2>5, <2>6, MergeMarketFacts
    <2>8. ASSUME NEW s \in Sides, books'[m][s] # "none"
          PROVE  Place(Token(m, s)) < pos'
      <3>1. Got(m, s) # "none" \/ books[m][s] # "none"
        BY <2>1, <2>8
      <3> QED BY <1>4, <1>5, <1>6, <1>7, <3>1
    <2> QED BY <2>2, <2>4, <2>7, <2>8
  <1>9. /\ books' \in [DOMAIN markets -> [Sides -> Answer]]
        /\ lastBookHash' \in [DOMAIN markets -> {"none", "blank", "yes", "no"}]
        /\ lastBookHash' = [m \in DOMAIN markets |-> HashOf(books'[m])]
    BY <1>2, <1>8
  <1>10. ~Waits(Worker)'
    BY <1>3, WaitsSame DEF MergeInv, MergeTypeOK
  <1>11. MergeTypeOK'
    BY <1>3, <1>4, <1>9, <1>10 DEF MergeInv, MergeTypeOK
  <1> QED BY <1>3, <1>4, <1>5, <1>8, <1>9, <1>11 DEF MergedSoFar, Token

LEMMA MergeInvInit == MergeInit => MergeInv
  <1> SUFFICES ASSUME MergeInit PROVE MergeInv
    OBVIOUS
  <1>1. TypeOK /\ QueuedOnce /\ ~Waits(Worker)
    <2>1. Init /\ Worker # NoCaller
      BY RateLimiterAssumption, ClobMergeAssumption DEF MergeInit
    <2>2. Queued = {} /\ holder = NoCaller /\ DOMAIN queue = {}
      BY <2>1 DEF Init, Queued
    <2> QED BY <2>1, <2>2, TypeInit DEF QueuedOnce, Waits
  <1>2. \A T : <<>> \in [DOMAIN <<>> -> T]
    OBVIOUS
  <1>3. MergeTypeOK
    BY <1>1, <1>2 DEF MergeInit, MergeTypeOK
  <1> QED BY <1>1, <1>3 DEF MergeInv, MergedSoFar, MergeInit, Loops

LEMMA MergeInvStep == MergeInv /\ [MergeNext]_mergeVars => MergeInv'
  <1> SUFFICES ASSUME MergeInv, [MergeNext]_mergeVars PROVE MergeInv'
    OBVIOUS
  <1>1. TypeOK' /\ QueuedOnce'
    BY MergeStepOrStutter, TypeStep, QueueStep DEF MergeInv
  <1>2. /\ TypeOK /\ QueuedOnce /\ Worker \in Callers
        /\ loop \in Loops \cup {"idle", "stopped"} /\ (loop = "wait" <=> Waits(Worker))
    BY ClobMergeAssumption DEF MergeInv, MergeTypeOK, Loops
  <1> SUFFICES MergeTypeOK' /\ MergedSoFar'
    BY <1>1 DEF MergeInv
  <1>3. CASE Begin
    BY <1>3, MergeBegin
  <1>4. CASE Ask
    <2>1. /\ Call(Worker) /\ loop = "batch" /\ loop' = "wait"
          /\ batchSize' = batchSize /\ UNCHANGED cycleVars
      BY <1>4 DEF Ask
    <2>2. Waits(Worker)'
      BY <1>2, <2>1, WaitsCall
    <2> QED BY <2>1, <2>2, CycleSame DEF Loops
  <1>5. CASE Abandon
    <2>1. ~Waits(Worker)'
      BY <1>2, <1>5, WaitsSame DEF Abandon, vars
    <2> QED BY <1>5, <2>1, CycleOver DEF Abandon
  <1>6. CASE Limited
    <2>1. /\ Grant /\ batchSize' = batchSize /\ UNCHANGED cycleVars
          /\ loop' = IF holder = Worker THEN "request" ELSE loop
      BY <1>6 DEF Limited
    <2>2. /\ Waits(Worker)' <=> Waits(Worker) /\ Worker # holder
          /\ holder = Worker => loop = "wait"
      BY <1>2, <2>1, WaitsRelease DEF Waits
    <2> QED BY <1>2, <2>1, <2>2, CycleSame DEF Loops
  <1>7. CASE Interrupted
    <2>1. /\ Interrupt
          /\ UNCHANGED <<batchSize, markets, lastBookHash, books>>
          /\ IF holder = Worker THEN NextBatch ELSE UNCHANGED <<loop, pos>>
      BY <1>7 DEF Interrupted
    <2>2. /\ Waits(Worker)' <=> Waits(Worker) /\ Worker # holder
          /\ holder = Worker => loop = "wait"
      BY <1>2, <2>1, WaitsRelease DEF Waits
    <2>3. CASE holder = Worker
      BY <2>1, <2>2, <2>3, NextBatchUnanswered DEF Loops
    <2>4. CASE holder # Worker
      BY <1>2, <2>1, <2>2, <2>4, CycleSame DEF Loops, cycleVars
    <2> QED BY <2>3, <2>4
  <1>8. CASE RequestFails
    <2>1. ~Waits(Worker)'
      BY <1>2, <1>8, WaitsSame DEF RequestFails, vars
    <2> QED BY <1>8, <2>1, NextBatchUnanswered DEF RequestFails, Loops
  <1>9. CASE RequestAnswered
    BY <1>9, MergeAnswered
  <1>10. CASE BatchesDone
    <2>1. /\ loop = "batch" /\ loop' = "upsert" /\ batchSize' = batchSize
          /\ UNCHANGED cycleVars
      BY <1>10 DEF BatchesDone
    <2>2. ~Waits(Worker)'
      BY <1>2, <1>10, WaitsSame DEF BatchesDone, vars
    <2> QED BY <2>1, <2>2, CycleSame DEF Loops
  <1>11. CASE UpsertMerged
    <2>1. ~Waits(Worker)'
      BY <1>2, <1>11, WaitsSame DEF UpsertMerged, vars
    <2> QED BY <1>11, <2>1, CycleOver DEF UpsertMerged
  <1>12. CASE Elsewhere \/ UNCHANGED mergeVars
    <2>1. UNCHANGED <<loop, batchSize>> /\ UNCHANGED cycleVars
      BY <1>12 DEF Elsewhere, loopVars, mergeVars
    <2>2. Waits(Worker)' <=> Waits(Worker)
      <3>1. CASE \E c \in Callers \ {Worker} : Call(c)
        BY <1>2, <3>1, WaitsCall
      <3>2. CASE Enter
        BY <1>2, <3>2, WaitsEnter
      <3>3. CASE Check \/ Arm \/ Fire \/ Cancel \/ Tick \/ UNCHANGED mergeVars
        BY <3>3, WaitsSame DEF Check, Arm, Fire, Cancel, Tick, mergeVars, vars
      <3> QED BY <1>12, <3>1, <3>2, <3>3 DEF Elsewhere
    <2> QED BY <1>2, <2>1, <2>2, CycleSame
  <1> QED
    BY <1>3, <1>4, <1>5, <1>6, <1>7, <1>8, <1>9, <1>10, <1>11, <1>12
       DEF MergeNext, Work

LEMMA MergeInvariant == MergeSpec => []MergeInv
  BY MergeInvInit, MergeInvStep, PTL DEF MergeSpec

(* Type correctness: in particular the loop is waiting exactly while its    *)
(* worker is inside the limiter's Wait.                                     *)
THEOREM MergeTypeCorrect == MergeSpec => []MergeTypeOK
  <1>1. MergeInv => MergeTypeOK
    BY DEF MergeInv
  <1> QED BY <1>1, MergeInvariant, PTL

(* Merging: for any markets, any batch size and any failed batches, what is *)
(* upserted has for each market the hash of its yes book, or of its no book *)
(* when no hash came with the first.                                        *)
THEOREM MergedHashes == MergeSpec => []MergePrefersYes
  <1>1. MergeInv => MergePrefersYes
    BY DEF MergeInv, MergedSoFar, MergePrefersYes, Loops
  <1> QED BY <1>1, MergeInvariant, PTL
=============================================================================
