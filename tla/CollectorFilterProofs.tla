------------------------ MODULE CollectorFilterProofs ------------------------
(***************************************************************************)
(* The duplicate filter of Collector, the books' accounting, and the proof *)
(* that Collector implements BookRecorder, for every value of the          *)
(* constants.                                                              *)
(***************************************************************************)
EXTENDS CollectorProofs

(* The k-th kept snapshot carries the hash lastBookHash holds for t, and no *)
(* snapshot of t kept after it carries any.                                 *)
LatestHashOf(t, k) ==
    /\ handed[k].token = t
    /\ handed[k].hash = lastBookHash[t] /\ handed[k].hash # NoHash
    /\ \A j \in DOMAIN handed : k < j /\ handed[j].token = t => handed[j].hash = NoHash

(* lastBookHash is the hash of the latest kept snapshot that has one. *)
HashTracked ==
    \A t \in Tokens :
        \/ /\ lastBookHash[t] = NoHash
           /\ \A k \in DOMAIN handed : handed[k].token = t => handed[k].hash = NoHash
        \/ \E k \in DOMAIN handed : LatestHashOf(t, k)

FilterInv == HashTracked /\ NoRepeatedHash /\ SkipJustified

(* The steps that leave the filter's state alone. *)
LEMMA FilterStutter ==
  ASSUME FilterInv, UNCHANGED <<handed, skipped, lastBookHash>>
  PROVE  FilterInv'
  BY DEF FilterInv, HashTracked, LatestHashOf, NoRepeatedHash, SkipJustified, KeptBetween

(* FilterKeep appends the head of toFlush to the kept snapshots. *)
LEMMA KeepEffect ==
  ASSUME TypeOK, FilterKeep
  PROVE  /\ Len(handed) \in Nat /\ DOMAIN handed = 1..Len(handed)
         /\ DOMAIN handed' = 1..(Len(handed) + 1)
         /\ \A i \in DOMAIN handed : handed'[i] = handed[i]
         /\ handed'[Len(handed) + 1] = Head(toFlush)
         /\ Head(toFlush) \in Snapshot
         /\ \A i \in DOMAIN handed : handed[i] \in Snapshot
         /\ lastBookHash' = RememberHash(Head(toFlush))
         /\ ~IsDuplicate(Head(toFlush))
         /\ skipped' = skipped
  <1> DEFINE s == Head(toFlush)
  <1>1. handed \in Seq(Snapshot) /\ toFlush \in Seq(Snapshot) /\ toFlush # <<>>
    BY DEF TypeOK, FilterKeep
  <1>2. s \in Snapshot
    BY <1>1, HeadTailProperties
  <1>3. handed' = Append(handed, s) /\ lastBookHash' = RememberHash(s)
        /\ ~IsDuplicate(s) /\ skipped' = skipped
    BY DEF FilterKeep
  <1> HIDE DEF s
  <1>4. /\ Append(handed, s) \in Seq(Snapshot)
        /\ Len(Append(handed, s)) = Len(handed) + 1
        /\ \A i \in 1..Len(handed) : Append(handed, s)[i] = handed[i]
        /\ Append(handed, s)[Len(handed) + 1] = s
    BY <1>1, <1>2, AppendProperties
  <1>5. Len(handed) \in Nat /\ DOMAIN handed = 1..Len(handed)
        /\ DOMAIN Append(handed, s) = 1..(Len(handed) + 1)
    BY <1>1, <1>4, LenProperties
  <1>6. \A i \in DOMAIN handed : handed[i] \in Snapshot
    BY <1>1, <1>5, ElementOfSeq
  <1> QED BY <1>2, <1>3, <1>4, <1>5, <1>6 DEF s

LEMMA KeepTracksHash ==
  ASSUME TypeOK, HashTracked, FilterKeep
  PROVE  HashTracked'
  <1>1. PICK n \in Nat, s \in Snapshot :
           /\ DOMAIN handed = 1..n /\ DOMAIN handed' = 1..(n + 1)
           /\ \A i \in 1..n : handed'[i] = handed[i]
           /\ handed'[n + 1] = s
           /\ lastBookHash' = RememberHash(s)
    BY KeepEffect
  <1>2. lastBookHash \in [Tokens -> Hashes \cup {NoHash}]
    BY DEF TypeOK
  <1> SUFFICES ASSUME NEW t \in Tokens
               PROVE  \/ /\ lastBookHash'[t] = NoHash
                         /\ \A k \in DOMAIN handed' :
                               handed'[k].token = t => handed'[k].hash = NoHash
                      \/ \E k \in DOMAIN handed' : LatestHashOf(t, k)'
    BY DEF HashTracked
  <1>3. CASE s.token = t /\ s.hash # NoHash
    <2>1. lastBookHash'[t] = s.hash
      BY <1>1, <1>2, <1>3 DEF RememberHash
    <2>2. \A j \in DOMAIN handed' : ~(n + 1 < j)
      BY <1>1
    <2>3. LatestHashOf(t, n + 1)'
      BY <1>1, <1>3, <2>1, <2>2 DEF LatestHashOf
    <2> QED BY <1>1, <2>3
  <1>4. CASE ~(s.token = t /\ s.hash # NoHash)
    <2>1. lastBookHash'[t] = lastBookHash[t]
      BY <1>1, <1>2, <1>4 DEF RememberHash
    <2>2. handed'[n + 1].token = t => handed'[n + 1].hash = NoHash
      BY <1>1, <1>4
    <2>3. CASE \E k \in DOMAIN handed : LatestHashOf(t, k)
      <3>1. PICK k \in 1..n : LatestHashOf(t, k)
        BY <1>1, <2>3
      <3>2. handed'[k] = handed[k] /\ k \in DOMAIN handed'
        BY <1>1
      <3>3. ASSUME NEW j \in DOMAIN handed', k < j, handed'[j].token = t
            PROVE  handed'[j].hash = NoHash
        <4>1. CASE j = n + 1
          BY <2>2, <3>3, <4>1
        <4>2. CASE j # n + 1
          <5>1. j \in 1..n
            BY <1>1, <4>2
          <5> QED BY <1>1, <3>1, <3>3, <5>1 DEF LatestHashOf
        <4> QED BY <4>1, <4>2
      <3>4. LatestHashOf(t, k)'
        BY <2>1, <3>1, <3>2, <3>3 DEF LatestHashOf
      <3> QED BY <3>2, <3>4
    <2>4. CASE /\ lastBookHash[t] = NoHash
               /\ \A k \in DOMAIN handed : handed[k].token = t => handed[k].hash = NoHash
      <3>1. \A k \in DOMAIN handed' : k = n + 1 \/ k \in 1..n
        BY <1>1
      <3> QED BY <1>1, <2>1, <2>2, <2>4, <3>1
    <2> QED BY <2>3, <2>4 DEF HashTracked
  <1> QED BY <1>3, <1>4

LEMMA KeepNoRepeat ==
  ASSUME TypeOK, HashTracked, NoRepeatedHash, FilterKeep
  PROVE  NoRepeatedHash'
  <1>1. PICK n \in Nat, s \in Snapshot :
           /\ DOMAIN handed = 1..n /\ DOMAIN handed' = 1..(n + 1)
           /\ \A i \in 1..n : handed'[i] = handed[i]
           /\ handed'[n + 1] = s
           /\ ~IsDuplicate(s)
    BY KeepEffect
  <1> SUFFICES ASSUME NEW i \in DOMAIN handed', NEW j \in DOMAIN handed', i < j,
                      handed'[i].token = handed'[j].token,
                      handed'[i].hash = handed'[j].hash, handed'[i].hash # NoHash
               PROVE  \E k \in (i + 1)..(j - 1) :
                         /\ handed'[k].token = handed'[i].token
                         /\ handed'[k].hash \notin {NoHash, handed'[i].hash}
    BY DEF NoRepeatedHash
  <1>2. i \in 1..n
    BY <1>1
  <1>3. CASE j \in 1..n
    <2>1. PICK k \in (i + 1)..(j - 1) :
             /\ handed[k].token = handed[i].token
             /\ handed[k].hash \notin {NoHash, handed[i].hash}
      BY <1>1, <1>2, <1>3 DEF NoRepeatedHash
    <2>2. k \in 1..n
      BY <1>1, <1>2, <1>3
    <2> QED BY <1>1, <1>2, <2>1, <2>2
  <1>4. CASE j = n + 1
    <2> DEFINE t == s.token
    <2>1. t \in Tokens /\ handed[i].token = t /\ handed[i].hash = s.hash
          /\ s.hash # NoHash
      BY <1>1, <1>2, <1>4 DEF Snapshot
    <2>2. lastBookHash[t] # s.hash
      BY <1>1, <2>1 DEF IsDuplicate
    <2> HIDE DEF t
    <2>3. PICK k \in 1..n : LatestHashOf(t, k)
      BY <1>1, <1>2, <2>1 DEF HashTracked
    <2>4. handed[k].token = t /\ handed[k].hash # NoHash /\ handed[k].hash # s.hash
      BY <2>2, <2>3 DEF LatestHashOf
    <2>5. i < k
      <3>1. ~(k < i)
        BY <1>1, <1>2, <2>1, <2>3 DEF LatestHashOf
      <3>2. k # i
        BY <2>1, <2>4
      <3> QED BY <1>1, <1>2, <3>1, <3>2
    <2>6. k \in (i + 1)..(j - 1)
      BY <1>1, <1>2, <1>4, <2>5
    <2> QED BY <1>1, <1>2, <1>4, <2>1, <2>4, <2>6
  <1> QED BY <1>1, <1>3, <1>4

(* The snapshots kept later are younger than every snapshot skipped before. *)
LEMMA KeepSkipJustified ==
  ASSUME TypeOK, StageInv, SkipJustified, FilterKeep
  PROVE  SkipJustified'
  <1>0. Head(toFlush) \in Elements(toFlush)
    BY HeadFacts DEF FilterKeep
  <1>1. PICK n \in Nat, h \in Snapshot :
           /\ DOMAIN handed = 1..n /\ DOMAIN handed' = 1..(n + 1)
           /\ \A i \in 1..n : handed'[i] = handed[i]
           /\ handed'[n + 1] = h /\ h = Head(toFlush) /\ skipped' = skipped
    BY KeepEffect
  <1>2. h \in Elements(toFlush)
    BY <1>0, <1>1
  <1> SUFFICES ASSUME NEW s \in skipped
               PROVE  \E i \in DOMAIN handed' :
                         /\ handed'[i].token = s.token /\ handed'[i].hash = s.hash
                         /\ handed'[i].id < s.id
                         /\ ~\E k \in DOMAIN handed' :
                               /\ handed'[k].token = s.token
                               /\ handed'[k].hash # NoHash
                               /\ handed'[i].id < handed'[k].id
                               /\ handed'[k].id < s.id
    BY <1>1 DEF SkipJustified, KeptBetween
  <1>3. PICK i \in 1..n :
           /\ handed[i].token = s.token /\ handed[i].hash = s.hash
           /\ handed[i].id < s.id
           /\ ~KeptBetween(s.token, handed[i].id, s.id)
    BY <1>1 DEF SkipJustified
  <1>4. s.id < h.id /\ s.id \in Int /\ h.id \in Int
    <2>1. s.id < h.id
      BY <1>2 DEF StageInv, OrderInv, Judged, Below
    <2> QED BY <1>1, <2>1, CollectorAssumption DEF TypeOK, Snapshot
  <1>5. ASSUME NEW k \in DOMAIN handed', handed'[k].token = s.token,
               handed'[k].hash # NoHash,
               handed[i].id < handed'[k].id, handed'[k].id < s.id
        PROVE  FALSE
    <2>1. CASE k \in 1..n
      BY <1>1, <1>3, <1>5, <2>1 DEF KeptBetween
    <2>2. CASE k = n + 1
      BY <1>1, <1>4, <1>5, <2>2
    <2> QED BY <1>1, <2>1, <2>2
  <1>6. i \in DOMAIN handed' /\ handed'[i] = handed[i]
    BY <1>1
  <1> QED BY <1>3, <1>5, <1>6

LEMMA SkipKeepsFilterInv ==
  ASSUME TypeOK, StageInv, FilterInv, FilterSkip
  PROVE  FilterInv'
  <1>1. UNCHANGED <<handed, lastBookHash>>
    BY DEF FilterSkip
  <1>2. HashTracked' /\ NoRepeatedHash'
    BY <1>1 DEF FilterInv, HashTracked, LatestHashOf, NoRepeatedHash
  <1>3. PICK s \in Snapshot :
           /\ s \in Elements(toFlush) /\ IsDuplicate(s)
           /\ skipped' = skipped \cup {s}
    <2>1. Head(toFlush) \in Snapshot /\ Head(toFlush) \in Elements(toFlush)
      BY HeadFacts DEF FilterSkip
    <2> QED BY <2>1 DEF FilterSkip
  <1>4. s.token \in Tokens /\ s.hash # NoHash /\ lastBookHash[s.token] = s.hash
    BY <1>3 DEF IsDuplicate, Snapshot
  <1>5. PICK i \in DOMAIN handed : LatestHashOf(s.token, i)
    BY <1>4 DEF FilterInv, HashTracked
  <1>6. DOMAIN handed \subseteq Nat
    BY LenProperties DEF TypeOK
  <1>7. \A k \in DOMAIN handed : handed[k].id < s.id /\ handed[k].id \in Int
    <2>1. \A k \in DOMAIN handed : handed[k] \in Elements(handed)
      BY DEF Elements
    <2>2. Elements(handed) \subseteq Snapshot
      BY ElementsType DEF TypeOK
    <2> QED BY <1>3, <2>1, <2>2, CollectorAssumption
            DEF StageInv, OrderInv, Judged, Below, Snapshot
  <1>8. ASSUME NEW k \in DOMAIN handed, handed[k].token = s.token,
               handed[k].hash # NoHash, handed[i].id < handed[k].id
        PROVE  FALSE
    <2>1. ~(k < i)
      BY <1>7, <1>8 DEF StageInv, OrderInv, Increasing
    <2>2. k # i
      BY <1>7, <1>8
    <2>3. i < k
      BY <1>6, <2>1, <2>2
    <2> QED BY <1>5, <1>8, <2>3 DEF LatestHashOf
  <1>9. ~KeptBetween(s.token, handed[i].id, s.id)
    BY <1>8 DEF KeptBetween
  <1>10. handed[i].token = s.token /\ handed[i].hash = s.hash /\ handed[i].id < s.id
    BY <1>4, <1>5, <1>7 DEF LatestHashOf
  <1>11. SkipJustified'
    BY <1>1, <1>3, <1>9, <1>10 DEF FilterInv, SkipJustified, KeptBetween
  <1> QED BY <1>2, <1>11 DEF FilterInv

LEMMA FilterInit == Init => FilterInv
  BY DEF Init, FilterInv, HashTracked, NoRepeatedHash, SkipJustified

LEMMA FilterStep == TypeOK /\ StageInv /\ FilterInv /\ [Next]_vars => FilterInv'
  <1> SUFFICES ASSUME TypeOK, StageInv, FilterInv, [Next]_vars PROVE FilterInv'
    OBVIOUS
  <1>1. CASE FilterSkip
    BY <1>1, SkipKeepsFilterInv
  <1>2. CASE FilterKeep
    BY <1>2, KeepTracksHash, KeepNoRepeat, KeepSkipJustified DEF FilterInv
  <1>3. CASE UNCHANGED <<handed, skipped, lastBookHash>>
    BY <1>3, FilterStutter
  <1>4. \/ FilterSkip \/ FilterKeep
        \/ UNCHANGED <<handed, skipped, lastBookHash>>
    BY DEF Next, Fetch, Filter, Insert, Terminated, vars, fetchVars, flushVars,
           Cancel, RefreshTokens, RefresherStop, FetchTick, FetchFail, FetchBooks,
           BufferAppend, BufferFull, FetcherStop, FlushTick, FlusherStop,
           FilterDone, InsertCommit, InsertFail
  <1> QED BY <1>1, <1>2, <1>3, <1>4

LEMMA FilterInvariant == Spec => [](TypeOK /\ StageInv /\ FilterInv)
  BY TypeInit, TypeStep, StageInit, StageStep, FilterInit, FilterStep, PTL DEF Spec

(* The filter lets no book through twice in a row: between two kept         *)
(* snapshots of a token with the same hash one with another hash was kept.  *)
THEOREM FilterKeepsNoRepeat == Spec => []NoRepeatedHash
  <1>1. FilterInv => NoRepeatedHash
    BY DEF FilterInv
  <1> QED BY <1>1, FilterInvariant, PTL

(* The filter loses no change: a snapshot is skipped only if the latest     *)
(* kept snapshot of its token that has a hash has the same one.             *)
THEOREM FilterSkipsOnlyDuplicates == Spec => []SkipJustified
  <1>1. FilterInv => SkipJustified
    BY DEF FilterInv
  <1> QED BY <1>1, FilterInvariant, PTL

-----------------------------------------------------------------------------
(* The snapshots of the pipeline, as a set. *)
Carried == Elements(handed) \cup Elements(toFlush) \cup Elements(buffer)
           \cup Elements(snaps)

Accounted ==
    /\ Ids(Carried) \cup Ids(skipped) \cup Ids(dropped) = 1..built
    /\ Ids(Carried) \cap (Ids(skipped) \cup Ids(dropped)) = {}
    /\ Ids(skipped) \cap Ids(dropped) = {}

LEMMA IdsOfUnion == \A A, B : Ids(A \cup B) = Ids(A) \cup Ids(B)
  BY DEF Ids

(* Snapshots of two stages have different ids. *)
LEMMA BelowDisjoint ==
  ASSUME NEW A, NEW B, A \cup B \subseteq Snapshot, Below(A, B)
  PROVE  Ids(A) \cap Ids(B) = {}
  <1>1. \A x \in A, y \in B : x.id \in Int /\ y.id \in Int /\ x.id < y.id
    BY CollectorAssumption DEF Below, Snapshot
  <1>2. \A x \in A, y \in B : x.id # y.id
    BY <1>1
  <1> QED BY <1>2 DEF Ids

LEMMA StagesTyped ==
  ASSUME TypeOK
  PROVE  Carried \cup skipped \cup dropped \subseteq Snapshot
  BY ElementsType DEF TypeOK, Carried

LEMMA AccountFetchBooks ==
  ASSUME TypeOK, StageInv, Accounted, FetchBooks
  PROVE  Accounted'
  <1>1. /\ built \in Nat /\ built' \in Nat /\ built <= built'
        /\ Ids(Elements(snaps')) = (built + 1)..built'
        /\ UNCHANGED <<handed, toFlush, buffer, skipped, dropped>>
    BY FetchBooksEffect DEF flushVars
  <1>2. Elements(snaps) = {}
    BY EmptyFacts DEF FetchBooks, StageInv, HoldersInv
  <1>3. Carried' = Carried \cup Elements(snaps')
    BY <1>1, <1>2 DEF Carried
  <1>4. Ids(Carried') = Ids(Carried) \cup (built + 1)..built'
    BY <1>1, <1>3, IdsOfUnion
  <1>5. 1..built' = 1..built \cup (built + 1)..built'
        /\ 1..built \cap (built + 1)..built' = {}
    BY <1>1
  <1> QED BY <1>1, <1>4, <1>5 DEF Accounted

LEMMA AccountFull ==
  ASSUME TypeOK, StageInv, Accounted, BufferFull
  PROVE  Accounted'
  <1> DEFINE rest == Judged \cup Elements(toFlush) \cup Elements(buffer)
             kept == Elements(handed) \cup Elements(toFlush) \cup Elements(buffer)
  <1>1. /\ snaps' = <<>> /\ dropped' = dropped \cup Elements(snaps)
        /\ UNCHANGED <<handed, toFlush, buffer, skipped, built>>
    BY DEF BufferFull, Elements, flushVars
  <1>2. Carried = kept \cup Elements(snaps) /\ Carried' = kept
    BY <1>1, EmptyFacts DEF Carried
  <1>3. Ids(rest) \cap Ids(Elements(snaps)) = {}
    <2>1. rest \cup Elements(snaps) \subseteq Snapshot
      BY StagesTyped DEF Carried, Judged
    <2>2. Below(rest, Elements(snaps))
      BY DEF StageInv, OrderInv
    <2> HIDE DEF rest
    <2> QED BY <2>1, <2>2, BelowDisjoint
  <1>4. Ids(rest) = Ids(kept) \cup Ids(skipped)
    <2>1. rest = kept \cup skipped
      BY DEF Judged
    <2> HIDE DEF rest, kept
    <2> QED BY <2>1, IdsOfUnion
  <1>5. Ids(Carried) = Ids(kept) \cup Ids(Elements(snaps)) /\ Ids(Carried') = Ids(kept)
    <2> HIDE DEF kept
    <2> QED BY <1>2, IdsOfUnion
  <1>6. Ids(dropped') = Ids(dropped) \cup Ids(Elements(snaps))
    BY <1>1, IdsOfUnion
  <1> HIDE DEF rest, kept
  <1> QED BY <1>1, <1>3, <1>4, <1>5, <1>6 DEF Accounted

LEMMA AccountSkip ==
  ASSUME TypeOK, StageInv, Accounted, FilterSkip
  PROVE  Accounted'
  <1> DEFINE s == Head(toFlush)
  <1>1. /\ skipped' = skipped \cup {s}
        /\ UNCHANGED <<handed, buffer, snaps, built, dropped>>
    BY DEF FilterSkip, fetchVars
  <1>2. /\ s \in Snapshot
        /\ Elements(toFlush) = {s} \cup Elements(toFlush')
        /\ Below({s}, Elements(toFlush'))
    BY HeadFacts DEF FilterSkip, StageInv, OrderInv
  <1> HIDE DEF s
  <1>3. Carried = Carried' \cup {s}
    BY <1>1, <1>2 DEF Carried
  <1>4. \A x \in Carried' : x.id # s.id
    <2>1. Carried' \subseteq Snapshot
      BY <1>3, StagesTyped
    <2>2. \A x \in Carried' : x.id \in Int /\ s.id \in Int
      BY <1>2, <2>1, CollectorAssumption DEF Snapshot
    <2>3. \A x \in Carried' : x.id < s.id \/ s.id < x.id
      BY <1>1, <1>2 DEF Carried, StageInv, OrderInv, Judged, Below
    <2> QED BY <2>2, <2>3
  <1>5. /\ Ids(Carried) = Ids(Carried') \cup {s.id} /\ s.id \notin Ids(Carried')
        /\ Ids(skipped') = Ids(skipped) \cup {s.id}
    BY <1>1, <1>3, <1>4 DEF Ids
  <1> QED BY <1>1, <1>5 DEF Accounted

LEMMA AccountStep ==
  TypeOK /\ StageInv /\ Accounted /\ [Next]_vars => Accounted'
  <1> SUFFICES ASSUME TypeOK, StageInv, Accounted, [Next]_vars PROVE Accounted'
    OBVIOUS
  <1> USE DEF fetchVars, flushVars
  <1>e. Elements(<<>>) = {}
    BY EmptyFacts
  <1>1. CASE FetchBooks
    BY <1>1, AccountFetchBooks
  <1>2. CASE BufferFull
    BY <1>2, AccountFull
  <1>3. CASE FilterSkip
    BY <1>3, AccountSkip
  <1>4. CASE Carried' = Carried /\ UNCHANGED <<skipped, dropped, built>>
    BY <1>4 DEF Accounted
  <1>5. CASE BufferAppend
    <2>1. Elements(buffer') = Elements(buffer) \cup Elements(snaps)
      BY <1>5, ConcatFacts DEF BufferAppend, TypeOK
    <2> QED BY <1>4, <1>5, <1>e, <2>1 DEF BufferAppend, Carried
  <1>6. CASE FlushTick \/ FlusherStop
    <2>1. Elements(toFlush) = {}
      BY <1>6, <1>e DEF FlushTick, FlusherStop, StageInv, HoldersInv
    <2>2. Carried' = Carried
      BY <1>6, <1>e, <2>1 DEF FlushTick, FlusherStop, Swap, Carried
    <2> QED BY <1>4, <1>6, <2>2 DEF FlushTick, FlusherStop
  <1>7. CASE FilterKeep
    <2> DEFINE s == Head(toFlush)
    <2>1. /\ s \in Snapshot /\ handed \in Seq(Snapshot)
          /\ Elements(toFlush) = {s} \cup Elements(toFlush')
      BY <1>7, HeadFacts DEF FilterKeep, TypeOK
    <2>2. handed' = Append(handed, s)
      BY <1>7 DEF FilterKeep
    <2> HIDE DEF s
    <2>3. /\ Elements(Append(handed, s)) = Elements(handed) \cup {s}
          /\ Increasing(Append(handed, s)) <=>
                Increasing(handed) /\ Below(Elements(handed), {s})
      BY <2>1, AppendFacts
    <2>4. Carried' = Carried
      BY <1>7, <2>1, <2>2, <2>3 DEF FilterKeep, Carried
    <2> QED BY <1>4, <1>7, <2>4 DEF FilterKeep
  <1>8. CASE UNCHANGED <<handed, toFlush, buffer, snaps, skipped, dropped, built>>
    BY <1>4, <1>8 DEF Carried
  <1> QED
    BY <1>1, <1>2, <1>3, <1>5, <1>6, <1>7, <1>8
       DEF Next, Fetch, Filter, Insert, Terminated, vars, Cancel, RefreshTokens,
           RefresherStop, FetchTick, FetchFail, FetcherStop, FilterDone,
           InsertCommit, InsertFail

(* Accounting: no snapshot is lost or counted twice on its way; each one    *)
(* built is in the pipeline, skipped as a duplicate or dropped by the full  *)
(* buffer.                                                                  *)
THEOREM SnapshotsAccounted == Spec => []EverySnapshotAccounted
  <1>1. Init => Accounted
    <2>1. Ids({}) = {} /\ Elements(<<>>) = {} /\ 1..0 = {}
      BY EmptyFacts DEF Ids
    <2> QED BY <2>1 DEF Init, Accounted, Carried
  <1>2. TypeOK /\ Accounted => EverySnapshotAccounted
    <2> SUFFICES ASSUME TypeOK, Accounted PROVE EverySnapshotAccounted
      OBVIOUS
    <2>1. Elements(Pipeline) = Carried
      BY PipelineFacts DEF Carried
    <2> QED BY <2>1 DEF Accounted, EverySnapshotAccounted
  <1> QED
    BY <1>1, <1>2, TypeInit, TypeStep, StageInit, StageStep, AccountStep, PTL DEF Spec

-----------------------------------------------------------------------------
(* The books BookRecorder calls held. *)
Held == Elements(filtered) \cup Elements(toFlush) \cup Elements(buffer)
        \cup Elements(snaps)

(* A step that only takes snapshots out of Held gives those books up. *)
LEMMA GiveUp ==
  ASSUME Held' \subseteq Held, UNCHANGED <<table, built>>
  PROVE  Recorder!Next
  BY DEF Recorder!Next, Recorder!Release, Held

LEMMA RefineFetchBooks ==
  ASSUME TypeOK, StageInv, FetchBooks
  PROVE  [Recorder!Next]_<<built, Held, table>>
  <1>1. /\ built \in Nat /\ built' \in Nat /\ built <= built'
        /\ Ids(Elements(snaps')) = (built + 1)..built'
        /\ snaps' = <<>> <=> built' = built
        /\ UNCHANGED <<toFlush, buffer, filtered, table>>
    BY FetchBooksEffect DEF flushVars
  <1>2. Elements(snaps) = {} /\ Elements(<<>>) = {} /\ snaps = <<>>
    BY EmptyFacts DEF FetchBooks, StageInv, HoldersInv
  <1>3. Held' = Held \cup Elements(snaps')
    BY <1>1, <1>2 DEF Held
  <1>4. CASE snaps' = <<>>
    BY <1>1, <1>2, <1>3, <1>4
  <1>5. CASE snaps' # <<>>
    <2>1. Held \subseteq Judged \cup Elements(toFlush) \cup Elements(buffer)
      BY <1>2 DEF Held, Judged, StageInv, StoreInv
    <2>2. \A x \in Held : x.id \in Int /\ x.id <= built
      <3>1. Judged \cup Elements(toFlush) \cup Elements(buffer) \subseteq Snapshot
        BY StagesTyped DEF Carried, Judged
      <3> QED BY <2>1, <3>1, CollectorAssumption DEF StageInv, OrderInv, Snapshot
    <2>3. \A x \in Elements(snaps') : x.id \in (built + 1)..built'
      BY <1>1 DEF Ids
    <2>4. Held' \ Held = Elements(snaps')
      <3>1. \A x \in Elements(snaps') : x \notin Held
        BY <1>1, <2>2, <2>3
      <3> QED BY <1>3, <3>1
    <2>5. {s.id : s \in Held' \ Held} = (built + 1)..built'
      BY <1>1, <2>4 DEF Ids
    <2>6. built' > built /\ Held \subseteq Held'
      BY <1>1, <1>3, <1>5
    <2> QED BY <1>1, <2>5, <2>6 DEF Recorder!Next, Recorder!Observe, Held
  <1> QED BY <1>4, <1>5

LEMMA RefineCommit ==
  ASSUME TypeOK, StageInv, InsertCommit
  PROVE  Recorder!Next
  <1> DEFINE new == table' \ table
  <1>1. /\ table' = table \cup NewRows(filtered) /\ filtered' = <<>>
        /\ UNCHANGED <<toFlush, buffer, snaps, built>>
    BY DEF InsertCommit, FlushReturn, fetchVars
  <1>2. NewRows(filtered) \subseteq Elements(filtered)
    BY DEF NewRows, Elements
  <1>3. Held' = Elements(toFlush) \cup Elements(buffer) \cup Elements(snaps)
    BY <1>1, EmptyFacts DEF Held
  <1>4. \A r \in Elements(filtered), y \in Held' : r.id \in Int /\ r.id < y.id
    <2>1. Elements(filtered) \subseteq Elements(handed) /\ Elements(handed) \subseteq Snapshot
      BY StagesTyped DEF StageInv, StoreInv, Carried
    <2> QED BY <1>3, <2>1, CollectorAssumption
            DEF StageInv, OrderInv, Judged, Below, Snapshot
  <1>5. new \subseteq Held \ Held'
    <2>1. \A r \in Elements(filtered) : r \notin Held'
      BY <1>4
    <2> QED BY <1>1, <1>2, <2>1 DEF Held
  <1>6. \A r \in new, q \in table : q.id < r.id
    BY <1>1, <1>2 DEF StageInv, StoreInv, Below
  <1>7. \A r \in new, q \in table' :
           q # r /\ q.token = r.token => q.stamp # r.stamp \/ r.stamp = NoStamp
    <2> SUFFICES ASSUME NEW r \in new, NEW q \in table', q # r, q.token = r.token,
                        q.stamp = r.stamp, r.stamp # NoStamp
                 PROVE  FALSE
      OBVIOUS
    <2>0. DOMAIN filtered \subseteq Nat
      BY LenProperties DEF TypeOK
    <2>1. PICK k \in DOMAIN filtered :
             /\ r = filtered[k]
             /\ \A p \in table : ~SameKey(p, filtered[k])
             /\ \A j \in 1..(k - 1) : ~SameKey(filtered[j], filtered[k])
      BY <1>1 DEF NewRows
    <2>2. CASE q \in table
      BY <2>1, <2>2 DEF SameKey
    <2>3. CASE q \notin table
      <3>1. PICK i \in DOMAIN filtered :
               /\ q = filtered[i]
               /\ \A j \in 1..(i - 1) : ~SameKey(filtered[j], filtered[i])
        BY <1>1, <2>3 DEF NewRows
      <3>2. SameKey(q, r) /\ SameKey(r, q)
        BY DEF SameKey
      <3>3. i # k
        BY <2>1, <3>1
      <3>4. 1 <= i /\ 1 <= k /\ i \in Nat /\ k \in Nat
        BY <2>0, LenProperties DEF TypeOK
      <3>5. ~(i < k)
        BY <2>1, <3>1, <3>2, <3>4
      <3>6. ~(k < i)
        BY <2>1, <3>1, <3>2, <3>4
      <3> QED BY <3>3, <3>4, <3>5, <3>6
    <2> QED BY <2>2, <2>3
  <1>8. Held' \subseteq Held
    BY <1>3 DEF Held
  <1> HIDE DEF new
  <1>9. table \subseteq table'
    BY <1>1
  <1> QED BY <1>1, <1>5, <1>6, <1>7, <1>8, <1>9
          DEF Recorder!Next, Recorder!Release, Held, new

LEMMA RefineStep ==
  TypeOK /\ StageInv /\ [Next]_vars => [Recorder!Next]_<<built, Held, table>>
  <1> SUFFICES ASSUME TypeOK, StageInv, [Next]_vars
               PROVE  [Recorder!Next]_<<built, Held, table>>
    OBVIOUS
  <1> USE DEF fetchVars, flushVars
  <1>e. Elements(<<>>) = {}
    BY EmptyFacts
  <1>1. CASE FetchBooks
    BY <1>1, RefineFetchBooks
  <1>2. CASE InsertCommit
    BY <1>2, RefineCommit
  <1>3. CASE FilterSkip
    <2>1. Elements(toFlush) = {Head(toFlush)} \cup Elements(toFlush')
      BY <1>3, HeadFacts DEF FilterSkip
    <2>2. Held' \subseteq Held
      BY <1>3, <2>1 DEF FilterSkip, Held
    <2> QED BY <1>3, <2>2, GiveUp DEF FilterSkip
  <1>4. CASE FilterKeep
    <2> DEFINE s == Head(toFlush)
    <2>1. /\ s \in Snapshot /\ filtered \in Seq(Snapshot)
          /\ Elements(toFlush) = {s} \cup Elements(toFlush')
      BY <1>4, HeadFacts DEF FilterKeep, TypeOK
    <2>2. filtered' = Append(filtered, s)
      BY <1>4 DEF FilterKeep
    <2> HIDE DEF s
    <2>3. /\ Elements(Append(filtered, s)) = Elements(filtered) \cup {s}
          /\ Increasing(Append(filtered, s)) <=>
                Increasing(filtered) /\ Below(Elements(filtered), {s})
      BY <2>1, AppendFacts
    <2>4. Held' = Held
      BY <1>4, <2>1, <2>2, <2>3 DEF FilterKeep, Held
    <2> QED BY <1>4, <2>4 DEF FilterKeep
  <1>5. CASE BufferFull \/ FilterDone \/ InsertFail
    <2>1. Held' \subseteq Held
      BY <1>5, <1>e DEF BufferFull, FilterDone, InsertFail, FlushReturn, Held
    <2> QED BY <1>5, <2>1, GiveUp DEF BufferFull, FilterDone, InsertFail
  <1>6. CASE BufferAppend
    <2>1. Elements(buffer') = Elements(buffer) \cup Elements(snaps)
      BY <1>6, ConcatFacts DEF BufferAppend, TypeOK
    <2>2. Held' = Held
      BY <1>6, <1>e, <2>1 DEF BufferAppend, Held
    <2> QED BY <1>6, <2>2 DEF BufferAppend
  <1>7. CASE FlushTick \/ FlusherStop
    <2>1. Elements(toFlush) = {}
      BY <1>7, <1>e DEF FlushTick, FlusherStop, StageInv, HoldersInv
    <2>2. Held' = Held
      BY <1>7, <1>e, <2>1 DEF FlushTick, FlusherStop, Swap, Held
    <2> QED BY <1>7, <2>2 DEF FlushTick, FlusherStop
  <1>8. CASE UNCHANGED <<filtered, toFlush, buffer, snaps, built, table>>
    BY <1>8 DEF Held
  <1> QED
    BY <1>1, <1>2, <1>3, <1>4, <1>5, <1>6, <1>7, <1>8
       DEF Next, Fetch, Filter, Insert, Terminated, vars, Cancel, RefreshTokens,
           RefresherStop, FetchTick, FetchFail, FetcherStop

(* Refinement: seen only through the books observed, those still in memory  *)
(* and the rows of book_snapshots, the collector is a BookRecorder: rows    *)
(* are added once, in the order of observation, with a fresh (token,        *)
(* timestamp), and a book given up never comes back.                        *)
THEOREM CollectorImplementsRecorder == Spec => RecorderSpec
  <1>1. Init => Recorder!Init
    BY EmptyFacts DEF Init, Recorder!Init
  <1>2. TypeOK /\ StageInv /\ [Next]_vars => [Recorder!Next]_(Recorder!recorderVars)
    BY RefineStep DEF Recorder!recorderVars, Held
  <1> QED BY <1>1, <1>2, StageInvariant, PTL DEF Spec, RecorderSpec, Recorder!Spec
=============================================================================
