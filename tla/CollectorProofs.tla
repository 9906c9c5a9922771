--------------------------- MODULE CollectorProofs ---------------------------
(***************************************************************************)
(* Proofs about Collector for every set of tokens, hashes and timestamps,  *)
(* every batch size, buffer limit and number of snapshots.                 *)
(***************************************************************************)
EXTENDS Collector, SequenceTheorems, TLAPS

(* The batch size in use is positive whatever is configured. *)
LEMMA BatchSizePositive == BatchSize \in 1..50
  BY CollectorAssumption DEF BatchSize

(* The current batch is a piece of the token list. *)
LEMMA BatchType ==
  ASSUME TypeOK, fetcher = "request"
  PROVE  Batch \in Seq(Tokens)
  <1> DEFINE last == IF pos + BatchSize - 1 > Len(tokens)
                     THEN Len(tokens) ELSE pos + BatchSize - 1
  <1>1. tokens \in Seq(Tokens) /\ pos \in Nat \ {0} /\ BatchSize \in 1..50
    BY BatchSizePositive DEF TypeOK
  <1>2. last \in Int /\ last <= Len(tokens)
    BY <1>1, LenProperties
  <1>3. \A i \in pos..last : tokens[i] \in Tokens
    BY <1>1, <1>2, ElementOfSeq
  <1>4. SubSeq(tokens, pos, last) \in Seq(Tokens)
    <2> HIDE DEF last
    <2> QED BY <1>1, <1>2, <1>3, SubSeqProperties
  <1> QED BY <1>4 DEF Batch

(* Every list of positions a response can answer is a list of positions. *)
LEMMA AnsweredType ==
  ASSUME NEW n \in Nat, NEW p \in Answered(n)
  PROVE  /\ Len(p) \in Nat /\ DOMAIN p = 1..Len(p)
         /\ \A k \in 1..Len(p) : p[k] \in 1..n
  <1>1. PICK m \in 0..n : p \in [1..m -> 1..n]
    BY DEF Answered
  <1>2. p \in Seq(1..n)
    BY <1>1, SeqDef
  <1> QED BY <1>2, LenProperties, ElementOfSeq

LEMMA AnsweredSeq ==
  ASSUME NEW n \in Nat, NEW p \in Answered(n)
  PROVE  p \in Seq(1..n)
  <1>1. PICK m \in 0..n : p \in [1..m -> 1..n]
    BY DEF Answered
  <1> QED BY <1>1, SeqDef

(* The shape of the state in the steps of fetchAndBuffer and flushBuffer. *)
LEMMA NextBatchType ==
  ASSUME TypeOK, NextBatch
  PROVE  /\ fetcher' \in {"idle", "request"}
         /\ tokens' \in Seq(Tokens) /\ pos' \in Nat \ {0}
         /\ fetcher' = "request" => pos' <= Len(tokens')
  <1>1. Len(tokens) \in Nat /\ pos \in Nat \ {0} /\ tokens \in Seq(Tokens)
    BY LenProperties DEF TypeOK
  <1>2. <<>> \in Seq(Tokens)
    BY EmptySeq
  <1>3. BatchSize \in Nat \ {0}
    BY BatchSizePositive
  <1>4. CASE pos + BatchSize > Len(tokens)
    BY <1>1, <1>2, <1>3, <1>4 DEF NextBatch, EndCycle
  <1>5. CASE ~(pos + BatchSize > Len(tokens))
    <2>1. fetcher' = "request" /\ pos' = pos + BatchSize /\ tokens' = tokens
      BY <1>5 DEF NextBatch
    <2> QED BY <1>1, <1>3, <1>5, <2>1
  <1> QED BY <1>4, <1>5

-----------------------------------------------------------------------------
LEMMA TypeInit == Init => TypeOK
  <1> USE CollectorAssumption
  <1>1. <<>> \in Seq(Tokens) /\ <<>> \in Seq(Snapshot)
    BY EmptySeq
  <1>2. [t \in Tokens |-> NoHash] \in [Tokens -> Hashes \cup {NoHash}]
    OBVIOUS
  <1>3. 0 \in 0..MaxSnapshots /\ 1 \in Nat \ {0}
    OBVIOUS
  <1> SUFFICES ASSUME Init PROVE TypeOK
    OBVIOUS
  <1>4. lastBookHash \in [Tokens -> Hashes \cup {NoHash}]
    BY <1>2 DEF Init
  <1>5. /\ cachedTokens \in Seq(Tokens) /\ tokens \in Seq(Tokens)
        /\ snaps \in Seq(Snapshot) /\ buffer \in Seq(Snapshot)
        /\ toFlush \in Seq(Snapshot) /\ filtered \in Seq(Snapshot)
        /\ handed \in Seq(Snapshot)
    BY <1>1 DEF Init
  <1>6. /\ pos \in Nat \ {0} /\ built \in 0..MaxSnapshots
        /\ cancelled \in BOOLEAN /\ finalFlush \in BOOLEAN
        /\ fetcher = "idle" /\ flusher = "idle" /\ refresher = "running"
        /\ table = {} /\ skipped = {} /\ dropped = {}
    BY <1>3 DEF Init
  <1> QED BY <1>4, <1>5, <1>6 DEF TypeOK

LEMMA TypeStep == TypeOK /\ [Next]_vars => TypeOK'
  <1> USE CollectorAssumption
  <1> SUFFICES ASSUME TypeOK, [Next]_vars PROVE TypeOK'
    OBVIOUS
  <1> USE DEF cacheVars, fetchVars, flushVars
  <1>e. \A S : <<>> \in Seq(S)
    BY EmptySeq
  <1>1. CASE Cancel
    BY <1>1 DEF Cancel, TypeOK
  <1>2. CASE RefreshTokens
    BY <1>2 DEF RefreshTokens, TypeOK
  <1>3. CASE RefresherStop
    BY <1>3 DEF RefresherStop, TypeOK
  <1>4. CASE FetchTick
    <2>1. pos' <= Len(tokens')
      BY <1>4, EmptySeq DEF FetchTick, TypeOK
    <2> QED BY <1>4, <2>1 DEF FetchTick, TypeOK
  <1>5. CASE FetchFail
    BY <1>5, <1>e DEF FetchFail, EndCycle, TypeOK
  <1>6. CASE FetchBooks
    <2>0. PICK p \in Answered(Len(Batch)) :
             \E hash \in [DOMAIN p -> Hashes \cup {NoHash}],
                stamp \in [DOMAIN p -> Stamps \cup {NoStamp}] :
             /\ built + Len(p) <= MaxSnapshots
             /\ built' = built + Len(p)
             /\ snaps' = [k \in 1..Len(p) |->
                            [id |-> built + k, token |-> Batch[p[k]],
                             hash |-> hash[k], stamp |-> stamp[k]]]
             /\ IF p = <<>> THEN NextBatch
                            ELSE fetcher' = "append" /\ UNCHANGED <<tokens, pos>>
      BY <1>6 DEF FetchBooks
    <2>1. PICK hash \in [DOMAIN p -> Hashes \cup {NoHash}],
               stamp \in [DOMAIN p -> Stamps \cup {NoStamp}] :
             /\ built + Len(p) <= MaxSnapshots
             /\ built' = built + Len(p)
             /\ snaps' = [k \in 1..Len(p) |->
                            [id |-> built + k, token |-> Batch[p[k]],
                             hash |-> hash[k], stamp |-> stamp[k]]]
             /\ IF p = <<>> THEN NextBatch
                            ELSE fetcher' = "append" /\ UNCHANGED <<tokens, pos>>
      BY <2>0
    <2>2. Batch \in Seq(Tokens) /\ Len(Batch) \in Nat
      BY <1>6, BatchType, LenProperties DEF FetchBooks
    <2>3. /\ Len(p) \in Nat /\ DOMAIN p = 1..Len(p)
          /\ \A k \in 1..Len(p) : p[k] \in 1..Len(Batch)
      BY <2>2, AnsweredType
    <2>4. built \in 0..MaxSnapshots /\ built' \in 0..MaxSnapshots
      BY <2>1, <2>3 DEF TypeOK
    <2>5. \A k \in 1..Len(p) : snaps'[k] \in Snapshot
      <3> SUFFICES ASSUME NEW k \in 1..Len(p) PROVE snaps'[k] \in Snapshot
        OBVIOUS
      <3>1. Batch[p[k]] \in Tokens
        BY <2>2, <2>3, ElementOfSeq
      <3>2. built + k \in 1..MaxSnapshots
        BY <2>1, <2>3, <2>4
      <3> QED BY <2>1, <2>3, <3>1, <3>2 DEF Snapshot
    <2>6. snaps' \in Seq(Snapshot)
      <3>1. snaps' \in [1..Len(p) -> Snapshot]
        BY <2>1, <2>5
      <3> QED BY <2>3, <3>1, SeqDef
    <2>7. /\ fetcher' \in {"idle", "request", "append"}
          /\ tokens' \in Seq(Tokens) /\ pos' \in Nat \ {0}
          /\ fetcher' = "request" => pos' <= Len(tokens')
      <3>1. CASE p = <<>>
        BY <2>1, <3>1, NextBatchType
      <3>2. CASE p # <<>>
        BY <2>1, <3>2 DEF TypeOK
      <3> QED BY <3>1, <3>2
    <2> QED BY <1>6, <2>4, <2>6, <2>7 DEF FetchBooks, TypeOK
  <1>7. CASE BufferAppend
    <2>1. buffer \o snaps \in Seq(Snapshot)
      BY ConcatProperties DEF TypeOK
    <2> QED BY <1>7, <1>e, <2>1, NextBatchType DEF BufferAppend, TypeOK
  <1>8. CASE BufferFull
    <2>1. {snaps[k] : k \in DOMAIN snaps} \subseteq Snapshot
      BY LenProperties, ElementOfSeq DEF TypeOK
    <2> QED BY <1>8, <1>e, <2>1 DEF BufferFull, EndCycle, TypeOK
  <1>9. CASE FetcherStop
    BY <1>9 DEF FetcherStop, TypeOK
  <1>10. CASE FlushTick
    BY <1>10, <1>e DEF FlushTick, Swap, TypeOK
  <1>11. CASE FlusherStop
    BY <1>11, <1>e DEF FlusherStop, Swap, TypeOK
  <1>12. CASE FilterSkip
    <2>1. Head(toFlush) \in Snapshot /\ Tail(toFlush) \in Seq(Snapshot)
      BY <1>12, HeadTailProperties DEF FilterSkip, TypeOK
    <2> QED BY <1>12, <2>1 DEF FilterSkip, TypeOK
  <1>13. CASE FilterKeep
    <2>1. Head(toFlush) \in Snapshot /\ Tail(toFlush) \in Seq(Snapshot)
      BY <1>13, HeadTailProperties DEF FilterKeep, TypeOK
    <2>2. /\ Append(filtered, Head(toFlush)) \in Seq(Snapshot)
          /\ Append(handed, Head(toFlush)) \in Seq(Snapshot)
      BY <2>1, AppendProperties DEF TypeOK
    <2>3. RememberHash(Head(toFlush)) \in [Tokens -> Hashes \cup {NoHash}]
      BY <2>1 DEF RememberHash, Snapshot, TypeOK
    <2> QED BY <1>13, <2>1, <2>2, <2>3 DEF FilterKeep, TypeOK
  <1>14. CASE FilterDone
    BY <1>14, <1>e DEF FilterDone, FlushReturn, TypeOK
  <1>15. CASE InsertCommit
    <2>1. NewRows(filtered) \subseteq Snapshot
      BY LenProperties, ElementOfSeq DEF NewRows, TypeOK
    <2> QED BY <1>15, <1>e, <2>1 DEF InsertCommit, FlushReturn, TypeOK
  <1>16. CASE InsertFail
    BY <1>16, <1>e DEF InsertFail, FlushReturn, TypeOK
  <1>17. CASE UNCHANGED vars
    BY <1>17 DEF vars, TypeOK
  <1> QED
    BY <1>1, <1>2, <1>3, <1>4, <1>5, <1>6, <1>7, <1>8, <1>9, <1>10, <1>11,
       <1>12, <1>13, <1>14, <1>15, <1>16, <1>17
       DEF Next, Fetch, Filter, Insert, Terminated

(* Type correctness: every variable keeps its type, and a batch is only     *)
(* requested inside the token list.                                         *)
THEOREM TypeCorrect == Spec => []TypeOK
  BY TypeInit, TypeStep, PTL DEF Spec

(* The hard limit of the buffer: the fetcher appends a batch only if all of *)
(* it fits, and the flusher only ever empties the buffer.                   *)
THEOREM BufferStaysBounded == Spec => []BufferBounded
  <1>1. Init => BufferBounded
    BY CollectorAssumption, EmptySeq DEF Init, BufferBounded
  <1>2. TypeOK /\ BufferBounded /\ [Next]_vars => BufferBounded'
    <2> SUFFICES ASSUME TypeOK, BufferBounded, [Next]_vars PROVE BufferBounded'
      OBVIOUS
    <2>1. CASE BufferAppend
      <3>1. Len(buffer \o snaps) = Len(buffer) + Len(snaps)
        BY ConcatProperties DEF TypeOK
      <3> QED BY <2>1, <3>1 DEF BufferAppend, HasRoom, BufferBounded
    <2>2. CASE buffer' = <<>>
      BY <2>2, EmptySeq, CollectorAssumption DEF BufferBounded
    <2>3. CASE buffer' = buffer
      BY <2>3 DEF BufferBounded
    <2>4. BufferAppend \/ buffer' = <<>> \/ buffer' = buffer
      BY DEF Next, Fetch, Filter, Insert, Terminated, vars, Cancel,
             RefreshTokens, RefresherStop, FetchTick, FetchFail, FetchBooks,
             BufferAppend, BufferFull, FetcherStop, FlushTick, FlusherStop, Swap,
             FilterSkip, FilterKeep, FilterDone, InsertCommit, InsertFail
    <2> QED BY <2>1, <2>2, <2>3, <2>4
  <1> QED BY <1>1, <1>2, TypeInit, TypeStep, PTL DEF Spec

-----------------------------------------------------------------------------
(* The order of snapshots on their way through the collector.  The          *)
(* sequences are compared through their sets of elements: all of toFlush    *)
(* was observed before all of buffer, and so on, so that moving a sequence  *)
(* from one stage to the next is set algebra.                               *)

(* All of A was observed before all of B. *)
Below(A, B) == \A x \in A, y \in B : x.id < y.id

(* Concatenation, Append, Head and Tail seen through Elements and Increasing. *)
LEMMA EmptyFacts == Elements(<<>>) = {} /\ Increasing(<<>>)
  BY DEF Elements, Increasing

LEMMA ConcatFacts ==
  ASSUME NEW S, NEW a \in Seq(S), NEW b \in Seq(S)
  PROVE  /\ Elements(a \o b) = Elements(a) \cup Elements(b)
         /\ Increasing(a \o b) <=> /\ Increasing(a) /\ Increasing(b)
                                   /\ Below(Elements(a), Elements(b))
  <1> DEFINE c == a \o b
             m == Len(a)
             n == Len(b)
  <1>1. /\ m \in Nat /\ DOMAIN a = 1..m /\ n \in Nat /\ DOMAIN b = 1..n
        /\ c \in Seq(S) /\ Len(c) = m + n /\ DOMAIN c = 1..(m + n)
    BY LenProperties, ConcatProperties
  <1>2. \A i \in 1..(m + n) : c[i] = IF i <= m THEN a[i] ELSE b[i - m]
    BY ConcatProperties
  <1> HIDE DEF c, m, n
  <1>3. \A i \in 1..m : i \in 1..(m + n) /\ c[i] = a[i]
    BY <1>1, <1>2
  <1>4. \A i \in 1..n : i + m \in 1..(m + n) /\ c[i + m] = b[i]
    <2> SUFFICES ASSUME NEW i \in 1..n
                 PROVE  i + m \in 1..(m + n) /\ c[i + m] = b[i]
      OBVIOUS
    <2>1. i + m \in 1..(m + n) /\ ~(i + m <= m) /\ (i + m) - m = i
      BY <1>1
    <2> QED BY <1>2, <2>1
  <1>5. \A i \in 1..(m + n) : i \in 1..m \/ \E j \in 1..n : i = j + m
    <2> SUFFICES ASSUME NEW i \in 1..(m + n), i \notin 1..m
                 PROVE  \E j \in 1..n : i = j + m
      OBVIOUS
    <2>1. i - m \in 1..n /\ i = (i - m) + m
      BY <1>1
    <2> QED BY <2>1
  <1>6. Elements(c) = Elements(a) \cup Elements(b)
    <2>1. Elements(a) \subseteq Elements(c)
      BY <1>1, <1>3 DEF Elements
    <2>2. Elements(b) \subseteq Elements(c)
      BY <1>1, <1>4 DEF Elements
    <2>3. ASSUME NEW i \in 1..(m + n)
          PROVE  c[i] \in Elements(a) \cup Elements(b)
      <3>1. CASE i \in 1..m
        BY <1>1, <1>3, <3>1 DEF Elements
      <3>2. CASE i \notin 1..m
        BY <1>1, <1>4, <1>5, <3>2 DEF Elements
      <3> QED BY <3>1, <3>2
    <2>4. Elements(c) \subseteq Elements(a) \cup Elements(b)
      BY <1>1, <2>3 DEF Elements
    <2> QED BY <2>1, <2>2, <2>4
  <1>7. ASSUME Increasing(c)
        PROVE  Increasing(a) /\ Increasing(b) /\ Below(Elements(a), Elements(b))
    <2>1. Increasing(a)
      BY <1>1, <1>3, <1>7 DEF Increasing
    <2>2. Increasing(b)
      <3> SUFFICES ASSUME NEW i \in 1..n, NEW j \in 1..n, i < j
                   PROVE  b[i].id < b[j].id
        BY <1>1 DEF Increasing
      <3>1. i + m < j + m
        BY <1>1
      <3> QED BY <1>1, <1>4, <1>7, <3>1 DEF Increasing
    <2>3. Below(Elements(a), Elements(b))
      <3> SUFFICES ASSUME NEW i \in 1..m, NEW j \in 1..n
                   PROVE  a[i].id < b[j].id
        BY <1>1 DEF Below, Elements
      <3>1. i < j + m
        BY <1>1
      <3> QED BY <1>1, <1>3, <1>4, <1>7, <3>1 DEF Increasing
    <2> QED BY <2>1, <2>2, <2>3
  <1>8. ASSUME Increasing(a), Increasing(b), Below(Elements(a), Elements(b))
        PROVE  Increasing(c)
    <2> SUFFICES ASSUME NEW i \in 1..(m + n), NEW j \in 1..(m + n), i < j
                 PROVE  c[i].id < c[j].id
      BY <1>1 DEF Increasing
    <2>1. CASE i \in 1..m /\ j \in 1..m
      BY <1>1, <1>3, <1>8, <2>1 DEF Increasing
    <2>2. CASE i \in 1..m /\ j \notin 1..m
      <3>1. PICK k \in 1..n : j = k + m
        BY <1>5, <2>2
      <3>2. a[i] \in Elements(a) /\ b[k] \in Elements(b)
        BY <1>1, <2>2 DEF Elements
      <3>3. c[i] = a[i] /\ c[j] = b[k]
        BY <1>3, <1>4, <2>2, <3>1
      <3> QED BY <1>8, <3>2, <3>3 DEF Below
    <2>3. CASE i \notin 1..m
      <3>1. PICK h \in 1..n : i = h + m
        BY <1>5, <2>3
      <3>2. j \notin 1..m
        BY <1>1, <3>1
      <3>3. PICK k \in 1..n : j = k + m
        BY <1>5, <3>2
      <3>4. h < k
        BY <1>1, <3>1, <3>3
      <3>5. c[i] = b[h] /\ c[j] = b[k]
        BY <1>4, <3>1, <3>3
      <3>6. b[h].id < b[k].id
        BY <1>1, <1>8, <3>4 DEF Increasing
      <3> QED BY <3>5, <3>6
    <2> QED BY <2>1, <2>2, <2>3
  <1> QED BY <1>6, <1>7, <1>8 DEF c

LEMMA SingletonFacts ==
  ASSUME NEW x
  PROVE  Elements(<<x>>) = {x} /\ Increasing(<<x>>)
  BY DEF Elements, Increasing

LEMMA AppendFacts ==
  ASSUME NEW S, NEW s \in Seq(S), NEW x \in S
  PROVE  /\ Elements(Append(s, x)) = Elements(s) \cup {x}
         /\ Increasing(Append(s, x)) <=> Increasing(s) /\ Below(Elements(s), {x})
  <1>1. Append(s, x) = s \o <<x>> /\ <<x>> \in Seq(S)
    BY AppendIsConcat
  <1>2. Elements(<<x>>) = {x} /\ Increasing(<<x>>)
    BY SingletonFacts
  <1>3. /\ Elements(s \o <<x>>) = Elements(s) \cup Elements(<<x>>)
        /\ Increasing(s \o <<x>>) <=> /\ Increasing(s) /\ Increasing(<<x>>)
                                      /\ Below(Elements(s), Elements(<<x>>))
    BY <1>1, ConcatFacts
  <1> QED BY <1>1, <1>2, <1>3

LEMMA HeadTailFacts ==
  ASSUME NEW S, NEW s \in Seq(S), s # <<>>
  PROVE  /\ Elements(s) = {Head(s)} \cup Elements(Tail(s))
         /\ Increasing(s) => Increasing(Tail(s)) /\ Below({Head(s)}, Elements(Tail(s)))
  <1>1. Head(s) \in S /\ Tail(s) \in Seq(S) /\ <<Head(s)>> \in Seq(S)
    BY HeadTailProperties
  <1>2. s = <<Head(s)>> \o Tail(s)
    <2>1. /\ Len(s) \in Nat \ {0} /\ Len(Tail(s)) = Len(s) - 1
          /\ \A i \in 1..Len(Tail(s)) : Tail(s)[i] = s[i + 1]
          /\ Head(s) = s[1]
      BY HeadTailProperties, EmptySeq
    <2> DEFINE r == <<Head(s)>> \o Tail(s)
    <2>2. /\ r \in Seq(S) /\ Len(r) = 1 + Len(Tail(s))
          /\ \A i \in 1..(1 + Len(Tail(s))) :
                r[i] = IF i <= 1 THEN <<Head(s)>>[i] ELSE Tail(s)[i - 1]
      BY <1>1, ConcatProperties
    <2>3. Len(r) = Len(s)
      BY <2>1, <2>2
    <2> HIDE DEF r
    <2>4. \A i \in 1..Len(s) : s[i] = r[i]
      <3> SUFFICES ASSUME NEW i \in 1..Len(s) PROVE s[i] = r[i]
        OBVIOUS
      <3>1. CASE i = 1
        BY <2>1, <2>2, <3>1
      <3>2. CASE i # 1
        <4>1. i - 1 \in 1..Len(Tail(s)) /\ (i - 1) + 1 = i
          BY <2>1, <3>2
        <4>2. r[i] = Tail(s)[i - 1]
          BY <2>1, <2>2, <3>2
        <4> QED BY <2>1, <4>1, <4>2
      <3> QED BY <3>1, <3>2
    <2>5. s = r
      BY <2>2, <2>3, <2>4, SeqEqual
    <2> QED BY <2>5 DEF r
  <1>3. /\ Elements(<<Head(s)>> \o Tail(s)) = {Head(s)} \cup Elements(Tail(s))
        /\ Increasing(<<Head(s)>> \o Tail(s)) <=>
              Increasing(Tail(s)) /\ Below({Head(s)}, Elements(Tail(s)))
    <2> DEFINE h == <<Head(s)>>
    <2>1. Elements(h) = {Head(s)} /\ Increasing(h)
      BY SingletonFacts
    <2>2. h \in Seq(S)
      BY <1>1
    <2> HIDE DEF h
    <2>3. /\ Elements(h \o Tail(s)) = Elements(h) \cup Elements(Tail(s))
          /\ Increasing(h \o Tail(s)) <=>
                /\ Increasing(h) /\ Increasing(Tail(s))
                /\ Below(Elements(h), Elements(Tail(s)))
      BY <1>1, <2>2, ConcatFacts
    <2> QED BY <2>1, <2>3 DEF h
  <1> QED BY <1>2, <1>3

-----------------------------------------------------------------------------
(* The snapshots already judged by the filter. *)
Judged == Elements(handed) \cup skipped

(* Who holds snapshots: fetchAndBuffer only between parsing and appending,  *)
(* flushBuffer only while it filters.                                       *)
HoldersInv ==
    /\ fetcher # "append" => snaps = <<>>
    /\ flusher # "filter" => toFlush = <<>>

(* The stages are ordered, each on its own and one after the other. *)
OrderInv ==
    /\ Increasing(handed) /\ Increasing(toFlush)
    /\ Increasing(buffer) /\ Increasing(snaps)
    /\ Below(Judged, Elements(toFlush))
    /\ Below(Judged \cup Elements(toFlush), Elements(buffer))
    /\ Below(Judged \cup Elements(toFlush) \cup Elements(buffer), Elements(snaps))
    /\ \A s \in Judged \cup Elements(toFlush) \cup Elements(buffer)
                \cup Elements(snaps) : s.id <= built

(* Rows come from kept snapshots, older ones before the ones in hand. *)
StoreInv ==
    /\ table \cup Elements(filtered) \subseteq Elements(handed)
    /\ Below(table, Elements(filtered))

StageInv == HoldersInv /\ OrderInv /\ StoreInv

(* Elements of a well-typed sequence are well typed. *)
LEMMA ElementsType ==
  ASSUME NEW S, NEW s \in Seq(S)
  PROVE  Elements(s) \subseteq S
  BY LenProperties, ElementOfSeq DEF Elements

(* A response adds snapshots numbered after every earlier one. *)
LEMMA FetchBooksEffect ==
  ASSUME TypeOK, FetchBooks
  PROVE  /\ built \in Nat /\ built' \in Nat /\ built <= built'
         /\ Increasing(snaps')
         /\ Ids(Elements(snaps')) = (built + 1)..built'
         /\ snaps' = <<>> <=> built' = built
         /\ snaps' # <<>> => fetcher' = "append"
         /\ UNCHANGED <<cancelled, cacheVars, buffer, flushVars, dropped>>
  <1>1. PICK p \in Answered(Len(Batch)) :
           \E hash \in [DOMAIN p -> Hashes \cup {NoHash}],
              stamp \in [DOMAIN p -> Stamps \cup {NoStamp}] :
           /\ built' = built + Len(p)
           /\ snaps' = [k \in 1..Len(p) |->
                          [id |-> built + k, token |-> Batch[p[k]],
                           hash |-> hash[k], stamp |-> stamp[k]]]
           /\ p # <<>> => fetcher' = "append"
    BY DEF FetchBooks
  <1>2. Batch \in Seq(Tokens) /\ Len(Batch) \in Nat
    BY BatchType, LenProperties DEF FetchBooks
  <1>3. Len(p) \in Nat /\ p \in Seq(1..Len(Batch))
    BY <1>2, AnsweredType, AnsweredSeq
  <1>4. built \in Nat /\ built' = built + Len(p) /\ built' \in Nat
    BY <1>1, <1>3, CollectorAssumption DEF TypeOK
  <1>5. /\ DOMAIN snaps' = 1..Len(p)
        /\ \A k \in 1..Len(p) : snaps'[k].id = built + k
    BY <1>1
  <1>6. Increasing(snaps')
    BY <1>3, <1>4, <1>5 DEF Increasing
  <1>7. Ids(Elements(snaps')) = (built + 1)..built'
    <2>1. ASSUME NEW i \in (built + 1)..built'
          PROVE  i \in Ids(Elements(snaps'))
      <3>1. i - built \in 1..Len(p) /\ built + (i - built) = i
        BY <1>3, <1>4
      <3>2. snaps'[i - built] \in Elements(snaps') /\ snaps'[i - built].id = i
        BY <1>5, <3>1 DEF Elements
      <3> QED BY <3>2 DEF Ids
    <2>2. ASSUME NEW k \in 1..Len(p)
          PROVE  snaps'[k].id \in (built + 1)..built'
      BY <1>3, <1>4, <1>5
    <2>3. Ids(Elements(snaps')) \subseteq (built + 1)..built'
      BY <1>5, <2>2 DEF Ids, Elements
    <2> QED BY <2>1, <2>3
  <1>8. snaps' = <<>> <=> Len(p) = 0
    <2>1. snaps' = <<>> => Len(p) = 0
      <3>1. DOMAIN <<>> = {}
        OBVIOUS
      <3> QED BY <1>3, <1>5, <3>1
    <2>2. Len(p) = 0 => snaps' = <<>>
      BY <1>1
    <2> QED BY <2>1, <2>2
  <1>9. snaps' # <<>> => fetcher' = "append"
    <2>1. Len(p) # 0 => p # <<>>
      BY EmptySeq
    <2> QED BY <1>1, <1>8, <2>1
  <1> QED BY <1>3, <1>4, <1>6, <1>7, <1>8, <1>9 DEF FetchBooks

LEMMA StageInit == Init => StageInv
  <1> SUFFICES ASSUME Init PROVE StageInv
    OBVIOUS
  <1>1. /\ handed = <<>> /\ toFlush = <<>> /\ buffer = <<>> /\ snaps = <<>>
        /\ filtered = <<>> /\ skipped = {} /\ table = {}
    BY DEF Init
  <1>2. Elements(<<>>) = {} /\ Increasing(<<>>)
    BY EmptyFacts
  <1> QED BY <1>1, <1>2 DEF StageInv, HoldersInv, OrderInv, StoreInv, Judged, Below

(* Steps that move no snapshot. *)
LEMMA StageStutter ==
  ASSUME StageInv, HoldersInv',
         UNCHANGED <<handed, toFlush, buffer, snaps, skipped, built, table>>,
         filtered' = filtered \/ filtered' = <<>>
  PROVE  StageInv'
  <1>1. Elements(<<>>) = {}
    BY EmptyFacts
  <1>2. OrderInv'
    BY DEF StageInv, OrderInv, Judged
  <1>3. StoreInv'
    BY <1>1 DEF StageInv, StoreInv, Below
  <1> QED BY <1>2, <1>3 DEF StageInv

LEMMA StageFetchBooks ==
  ASSUME TypeOK, StageInv, FetchBooks
  PROVE  StageInv'
  <1>1. /\ built \in Nat /\ built' \in Nat /\ built <= built'
        /\ Increasing(snaps') /\ Ids(Elements(snaps')) = (built + 1)..built'
        /\ snaps' # <<>> => fetcher' = "append"
        /\ UNCHANGED <<handed, toFlush, buffer, skipped, table, filtered, flusher>>
    BY FetchBooksEffect DEF flushVars
  <1>2. \A s \in Elements(snaps') : s.id \in (built + 1)..built'
    BY <1>1 DEF Ids
  <1>3. Judged \cup Elements(toFlush) \cup Elements(buffer) \subseteq Snapshot
    BY ElementsType DEF TypeOK, Judged
  <1>4. \A s \in Snapshot : s.id \in Int
    BY CollectorAssumption DEF Snapshot
  <1>5. Below(Judged \cup Elements(toFlush) \cup Elements(buffer), Elements(snaps'))
    <2> SUFFICES ASSUME NEW x \in Judged \cup Elements(toFlush) \cup Elements(buffer),
                        NEW y \in Elements(snaps')
                 PROVE  x.id < y.id
      BY DEF Below
    <2>1. x.id \in Int /\ x.id <= built /\ y.id \in (built + 1)..built'
      BY <1>2, <1>3, <1>4 DEF StageInv, OrderInv
    <2> QED BY <1>1, <2>1
  <1>6. \A s \in Judged \cup Elements(toFlush) \cup Elements(buffer)
                 \cup Elements(snaps') : s.id <= built'
    <2>1. ASSUME NEW s \in Judged \cup Elements(toFlush) \cup Elements(buffer)
          PROVE  s.id <= built'
      <3>1. s.id \in Int /\ s.id <= built
        BY <1>3, <1>4 DEF StageInv, OrderInv
      <3> QED BY <1>1, <3>1
    <2>2. ASSUME NEW s \in Elements(snaps') PROVE s.id <= built'
      BY <1>1, <1>2
    <2> QED BY <2>1, <2>2
  <1>7. OrderInv'
    BY <1>1, <1>5, <1>6 DEF StageInv, OrderInv, Judged
  <1>8. StoreInv' /\ HoldersInv'
    BY <1>1 DEF StageInv, StoreInv, HoldersInv
  <1> QED BY <1>7, <1>8 DEF StageInv

LEMMA StageAppend ==
  ASSUME TypeOK, StageInv, BufferAppend
  PROVE  StageInv'
  <1>1. /\ buffer' = buffer \o snaps /\ snaps' = <<>>
        /\ UNCHANGED <<handed, toFlush, skipped, built, table, filtered, flusher>>
    BY DEF BufferAppend, flushVars
  <1>2. /\ Elements(buffer') = Elements(buffer) \cup Elements(snaps)
        /\ Increasing(buffer') <=> /\ Increasing(buffer) /\ Increasing(snaps)
                                   /\ Below(Elements(buffer), Elements(snaps))
    BY <1>1, ConcatFacts DEF TypeOK
  <1>3. Elements(snaps') = {} /\ Increasing(snaps')
    BY <1>1, EmptyFacts
  <1>4. OrderInv'
    BY <1>1, <1>2, <1>3 DEF StageInv, OrderInv, Judged, Below
  <1>5. StoreInv' /\ HoldersInv'
    BY <1>1 DEF StageInv, StoreInv, HoldersInv
  <1> QED BY <1>4, <1>5 DEF StageInv

LEMMA StageFull ==
  ASSUME StageInv, BufferFull
  PROVE  StageInv'
  <1>1. /\ snaps' = <<>>
        /\ UNCHANGED <<handed, toFlush, buffer, skipped, built, table, filtered, flusher>>
    BY DEF BufferFull, flushVars
  <1>2. Elements(snaps') = {} /\ Increasing(snaps')
    BY <1>1, EmptyFacts
  <1>3. OrderInv'
    BY <1>1, <1>2 DEF StageInv, OrderInv, Judged, Below
  <1>4. StoreInv' /\ HoldersInv'
    BY <1>1 DEF StageInv, StoreInv, HoldersInv
  <1> QED BY <1>3, <1>4 DEF StageInv

LEMMA StageSwap ==
  ASSUME StageInv, Swap, flusher = "idle",
         UNCHANGED <<fetchVars, handed, skipped, table, filtered>>
  PROVE  StageInv'
  <1>1. /\ toFlush = <<>> /\ toFlush' = buffer /\ buffer' = <<>>
        /\ flusher' = "filter"
        /\ UNCHANGED <<fetcher, snaps, built>>
    BY DEF StageInv, HoldersInv, Swap, fetchVars
  <1>2. Elements(buffer') = {} /\ Increasing(buffer') /\ Elements(toFlush) = {}
    BY <1>1, EmptyFacts
  <1>3. OrderInv'
    BY <1>1, <1>2 DEF StageInv, OrderInv, Judged, Below
  <1>4. StoreInv' /\ HoldersInv'
    BY <1>1 DEF StageInv, StoreInv, HoldersInv
  <1> QED BY <1>3, <1>4 DEF StageInv

(* The filter judges the oldest snapshot in hand. *)
LEMMA HeadFacts ==
  ASSUME TypeOK, toFlush # <<>>, toFlush' = Tail(toFlush)
  PROVE  /\ Head(toFlush) \in Snapshot
         /\ Elements(toFlush) = {Head(toFlush)} \cup Elements(toFlush')
         /\ Increasing(toFlush) =>
               Increasing(toFlush') /\ Below({Head(toFlush)}, Elements(toFlush'))
  BY HeadTailFacts, HeadTailProperties DEF TypeOK

LEMMA StageSkip ==
  ASSUME TypeOK, StageInv, FilterSkip
  PROVE  StageInv'
  <1> DEFINE s == Head(toFlush)
  <1>1. /\ skipped' = skipped \cup {s} /\ flusher' = flusher /\ flusher = "filter"
        /\ UNCHANGED <<fetcher, handed, buffer, snaps, built, table, filtered>>
    BY DEF FilterSkip, fetchVars
  <1>2. /\ Elements(toFlush) = {s} \cup Elements(toFlush')
        /\ Increasing(toFlush') /\ Below({s}, Elements(toFlush'))
    BY HeadFacts DEF FilterSkip, StageInv, OrderInv
  <1>3. Judged' = Judged \cup {s}
    BY <1>1 DEF Judged
  <1> HIDE DEF s
  <1>4. OrderInv'
    BY <1>1, <1>2, <1>3 DEF StageInv, OrderInv, Below
  <1>5. StoreInv' /\ HoldersInv'
    BY <1>1 DEF StageInv, StoreInv, HoldersInv
  <1> QED BY <1>4, <1>5 DEF StageInv

LEMMA StageKeep ==
  ASSUME TypeOK, StageInv, FilterKeep
  PROVE  StageInv'
  <1> DEFINE s == Head(toFlush)
  <1>1. /\ handed' = Append(handed, s) /\ filtered' = Append(filtered, s)
        /\ flusher' = flusher /\ flusher = "filter"
        /\ UNCHANGED <<fetcher, skipped, buffer, snaps, built, table>>
    BY DEF FilterKeep, fetchVars
  <1>2. /\ s \in Snapshot
        /\ Elements(toFlush) = {s} \cup Elements(toFlush')
        /\ Increasing(toFlush') /\ Below({s}, Elements(toFlush'))
    BY HeadFacts DEF FilterKeep, StageInv, OrderInv
  <1>3. /\ Elements(handed') = Elements(handed) \cup {s}
        /\ Increasing(handed') <=> Increasing(handed) /\ Below(Elements(handed), {s})
        /\ Elements(filtered') = Elements(filtered) \cup {s}
    <2>1. handed \in Seq(Snapshot) /\ filtered \in Seq(Snapshot)
      BY DEF TypeOK
    <2> HIDE DEF s
    <2>2. /\ Elements(Append(handed, s)) = Elements(handed) \cup {s}
          /\ Increasing(Append(handed, s)) <=>
                Increasing(handed) /\ Below(Elements(handed), {s})
      BY <1>2, <2>1, AppendFacts
    <2>3. /\ Elements(Append(filtered, s)) = Elements(filtered) \cup {s}
          /\ Increasing(Append(filtered, s)) <=>
                Increasing(filtered) /\ Below(Elements(filtered), {s})
      BY <1>2, <2>1, AppendFacts
    <2> QED BY <1>1, <2>2, <2>3
  <1>4. Judged' = Judged \cup {s}
    BY <1>1, <1>3 DEF Judged
  <1> HIDE DEF s
  <1>5. Below(Elements(handed), {s})
    BY <1>2 DEF StageInv, OrderInv, Judged, Below
  <1>6. OrderInv'
    BY <1>1, <1>2, <1>3, <1>4, <1>5 DEF StageInv, OrderInv, Below
  <1>7. StoreInv' /\ HoldersInv'
    BY <1>1, <1>3, <1>5 DEF StageInv, StoreInv, HoldersInv, Below
  <1> QED BY <1>6, <1>7 DEF StageInv

LEMMA StageCommit ==
  ASSUME StageInv, InsertCommit
  PROVE  StageInv'
  <1>1. /\ table' = table \cup NewRows(filtered) /\ filtered' = <<>>
        /\ flusher' # "filter" /\ flusher = "insert"
        /\ UNCHANGED <<fetcher, handed, toFlush, buffer, snaps, skipped, built>>
    BY DEF InsertCommit, FlushReturn, fetchVars
  <1>2. NewRows(filtered) \subseteq Elements(filtered)
    BY DEF NewRows, Elements
  <1>3. Elements(filtered') = {}
    BY <1>1, EmptyFacts
  <1>4. OrderInv'
    BY <1>1 DEF StageInv, OrderInv, Judged
  <1>5. StoreInv' /\ HoldersInv'
    BY <1>1, <1>2, <1>3 DEF StageInv, StoreInv, HoldersInv, Below
  <1> QED BY <1>4, <1>5 DEF StageInv

LEMMA StageStep == TypeOK /\ StageInv /\ [Next]_vars => StageInv'
  <1> SUFFICES ASSUME TypeOK, StageInv, [Next]_vars PROVE StageInv'
    OBVIOUS
  <1> USE DEF cacheVars, fetchVars, flushVars
  <1>1. CASE FetchBooks
    BY <1>1, StageFetchBooks
  <1>2. CASE BufferAppend
    BY <1>2, StageAppend
  <1>3. CASE BufferFull
    BY <1>3, StageFull
  <1>4. CASE FlushTick
    BY <1>4, StageSwap DEF FlushTick
  <1>5. CASE FlusherStop
    <2>1. CASE buffer = <<>>
      <3>1. HoldersInv'
        BY <1>5, <2>1 DEF FlusherStop, StageInv, HoldersInv
      <3> QED BY <1>5, <2>1, <3>1, StageStutter DEF FlusherStop
    <2>2. CASE buffer # <<>>
      BY <1>5, <2>2, StageSwap DEF FlusherStop
    <2> QED BY <2>1, <2>2
  <1>6. CASE FilterSkip
    BY <1>6, StageSkip
  <1>7. CASE FilterKeep
    BY <1>7, StageKeep
  <1>8. CASE InsertCommit
    BY <1>8, StageCommit
  <1>9. CASE Cancel \/ RefreshTokens \/ RefresherStop \/ FetcherStop
    <2>1. HoldersInv'
      BY <1>9 DEF Cancel, RefreshTokens, RefresherStop, FetcherStop,
                  StageInv, HoldersInv
    <2> QED BY <1>9, <2>1, StageStutter
            DEF Cancel, RefreshTokens, RefresherStop, FetcherStop
  <1>10. CASE FetchTick \/ FetchFail
    <2>1. HoldersInv'
      BY <1>10 DEF FetchTick, FetchFail, EndCycle, StageInv, HoldersInv
    <2> QED BY <1>10, <2>1, StageStutter DEF FetchTick, FetchFail
  <1>11. CASE FilterDone \/ InsertFail
    <2>1. filtered' = filtered \/ filtered' = <<>>
      BY <1>11 DEF FilterDone, InsertFail, FlushReturn
    <2>2. HoldersInv'
      BY <1>11 DEF FilterDone, FilterLoopOver, InsertFail, FlushReturn,
                   StageInv, HoldersInv
    <2> QED BY <1>11, <2>1, <2>2, StageStutter DEF FilterDone, InsertFail
  <1>12. CASE UNCHANGED vars
    <2>1. HoldersInv'
      BY <1>12 DEF vars, StageInv, HoldersInv
    <2> QED BY <1>12, <2>1, StageStutter DEF vars
  <1> QED
    BY <1>1, <1>2, <1>3, <1>4, <1>5, <1>6, <1>7, <1>8, <1>9, <1>10, <1>11, <1>12
       DEF Next, Fetch, Filter, Insert, Terminated

LEMMA StageInvariant == Spec => [](TypeOK /\ StageInv)
  BY TypeInit, TypeStep, StageInit, StageStep, PTL DEF Spec

(* Pipeline is the four stages in a row. *)
LEMMA PipelineFacts ==
  ASSUME TypeOK
  PROVE  /\ Pipeline \in Seq(Snapshot)
         /\ Elements(Pipeline) = Elements(handed) \cup Elements(toFlush)
                                 \cup Elements(buffer) \cup Elements(snaps)
         /\ Increasing(Pipeline) <=>
              /\ Increasing(handed) /\ Increasing(toFlush)
              /\ Increasing(buffer) /\ Increasing(snaps)
              /\ Below(Elements(toFlush), Elements(buffer))
              /\ Below(Elements(toFlush) \cup Elements(buffer), Elements(snaps))
              /\ Below(Elements(handed), Elements(toFlush) \cup Elements(buffer)
                                         \cup Elements(snaps))
  <1> DEFINE tb == toFlush \o buffer
             tbs == tb \o snaps
  <1>1. /\ handed \in Seq(Snapshot) /\ toFlush \in Seq(Snapshot)
        /\ buffer \in Seq(Snapshot) /\ snaps \in Seq(Snapshot)
    BY DEF TypeOK
  <1>2. tb \in Seq(Snapshot)
    BY <1>1, ConcatProperties
  <1>3. /\ Elements(tb) = Elements(toFlush) \cup Elements(buffer)
        /\ Increasing(tb) <=> /\ Increasing(toFlush) /\ Increasing(buffer)
                              /\ Below(Elements(toFlush), Elements(buffer))
    BY <1>1, ConcatFacts
  <1> HIDE DEF tb
  <1>4. tbs \in Seq(Snapshot)
    BY <1>1, <1>2, ConcatProperties
  <1>5. /\ Elements(tbs) = Elements(tb) \cup Elements(snaps)
        /\ Increasing(tbs) <=> /\ Increasing(tb) /\ Increasing(snaps)
                               /\ Below(Elements(tb), Elements(snaps))
    BY <1>1, <1>2, ConcatFacts
  <1> HIDE DEF tbs
  <1>6. handed \o tbs \in Seq(Snapshot)
    BY <1>1, <1>4, ConcatProperties
  <1>7. /\ Elements(handed \o tbs) = Elements(handed) \cup Elements(tbs)
        /\ Increasing(handed \o tbs) <=> /\ Increasing(handed) /\ Increasing(tbs)
                                         /\ Below(Elements(handed), Elements(tbs))
    BY <1>1, <1>4, ConcatFacts
  <1>8. Pipeline = handed \o tbs
    BY DEF Pipeline, Waiting, tbs, tb
  <1> QED BY <1>3, <1>5, <1>6, <1>7, <1>8

(* Order: at every moment the snapshots in the pipeline, from the first the *)
(* filter kept to the last one parsed, are in the order of observation.     *)
THEOREM SnapshotsStayOrdered == Spec => []PipelineOrdered
  <1>1. TypeOK /\ StageInv => PipelineOrdered
    <2> SUFFICES ASSUME TypeOK, StageInv PROVE PipelineOrdered
      OBVIOUS
    <2>1. /\ Increasing(handed) /\ Increasing(toFlush)
          /\ Increasing(buffer) /\ Increasing(snaps)
      BY DEF StageInv, OrderInv
    <2>2. /\ Below(Elements(toFlush), Elements(buffer))
          /\ Below(Elements(toFlush) \cup Elements(buffer), Elements(snaps))
          /\ Below(Elements(handed), Elements(toFlush) \cup Elements(buffer)
                                     \cup Elements(snaps))
      BY DEF StageInv, OrderInv, Judged, Below
    <2> QED BY <2>1, <2>2, PipelineFacts DEF PipelineOrdered
  <1> QED BY <1>1, StageInvariant, PTL

(* Rows reach book_snapshots in the order of observation: every row a       *)
(* commit adds was observed after every row already there.                  *)
THEOREM RowsInsertedInOrder == Spec => InsertedInOrder
  <1>1. TypeOK /\ StageInv /\ [Next]_vars =>
          [\A new \in table' \ table, old \in table : old.id < new.id]_vars
    <2> SUFFICES ASSUME TypeOK, StageInv, Next
                 PROVE  \A new \in table' \ table, old \in table : old.id < new.id
      OBVIOUS
    <2>1. table' = table \/ table' = table \cup NewRows(filtered)
      BY DEF Next, Fetch, Filter, Insert, Terminated, vars, fetchVars, flushVars,
             Cancel, RefreshTokens, RefresherStop, FetchTick, FetchFail,
             FetchBooks, BufferAppend, BufferFull, FetcherStop, FlushTick,
             FlusherStop, FilterSkip, FilterKeep, FilterDone, InsertCommit,
             InsertFail
    <2>2. NewRows(filtered) \subseteq Elements(filtered)
      BY DEF NewRows, Elements
    <2> QED BY <2>1, <2>2 DEF StageInv, StoreInv, Below
  <1> QED BY <1>1, StageInvariant, PTL DEF Spec, InsertedInOrder
=============================================================================
