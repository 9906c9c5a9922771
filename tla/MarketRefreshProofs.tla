------------------------- MODULE MarketRefreshProofs -------------------------
(***************************************************************************)
(* Proofs about MarketRefresh, for any markets, stages of life, answers of *)
(* Gamma, refresh limit and number of faults.                              *)
(***************************************************************************)
EXTENDS MarketRefresh, FiniteSetTheorems, TLAPS

-----------------------------------------------------------------------------
(* The invariants. *)

(* A worker holds nothing when it is idle and has asked for every market    *)
(* when it writes.  The refresh worker holds stored markets; those the      *)
(* discovery worker has not written yet are not stored.                     *)
Held ==
    /\ \A w \in Workers :
           /\ worker[w] # "fetch" => todo[w] = <<>>
           /\ worker[w] = "idle" => found[w] = <<>>
    /\ DOMAIN todo["refresh"] \cup DOMAIN found["refresh"] \subseteq Stored
    /\ worker["discovery"] \in {"fetch", "upsert"} =>
           (DOMAIN todo["discovery"] \cup DOMAIN found["discovery"]) \cap Stored = {}

(* A market that has come to this stage has this status, or a later one.    *)
Reached(stage, status) == stage > 0 /\ Rank(status) <= Rank(Status(Life[stage]))

(* No row and no answer is ahead of Gamma; an answer of the refresh worker  *)
(* is not behind the row, nor behind the answer discovery holds.            *)
StatusHeld ==
    /\ \A m \in Stored : Reached(gamma[m], row[m].status)
    /\ \A w \in Workers : \A m \in DOMAIN found[w] : Reached(gamma[m], found[w][m].status)
    /\ \A m \in DOMAIN found["refresh"] :
           /\ Rank(row[m].status) <= Rank(found["refresh"][m].status)
           /\ m \in DOMAIN found["discovery"] =>
                  Rank(found["discovery"][m].status) <= Rank(found["refresh"][m].status)

(* Token ids in an answer of discovery are in the row once it is stored;    *)
(* the refresh worker holds no blank id of a row with ids, neither as it    *)
(* read the row nor as an answer.                                           *)
TokensHeld ==
    /\ \A m \in Stored \cap DOMAIN found["discovery"] :
           found["discovery"][m].tokens = "ids" => row[m].tokens = "ids"
    /\ \A m \in DOMAIN found["refresh"] :
           row[m].tokens = "ids" => found["refresh"][m].tokens # "blank"
    /\ \A m \in DOMAIN todo["refresh"] :
           row[m].tokens = "ids" => todo["refresh"][m] # "blank"

(* Gamma never takes a market back to an earlier status. *)
GammaForward ==
    \A i, j \in DOMAIN Life : i <= j => Rank(Status(Life[i])) <= Rank(Status(Life[j]))
-----------------------------------------------------------------------------
(* Functions from some of the markets. *)

LEMMA PartialFacts ==
  ASSUME NEW T, NEW f
  PROVE  f \in Partial(T) <=> DOMAIN f \subseteq Markets /\ f \in [DOMAIN f -> T]
  BY DEF Partial

LEMMA EmptyFacts ==
  ASSUME NEW T
  PROVE  /\ <<>> \in Partial(T) /\ DOMAIN <<>> = {}
         /\ \A f \in Partial(T) : DOMAIN f = {} => f = <<>>
  <1>1. <<>> \in [{} -> T] /\ DOMAIN <<>> = {}
    OBVIOUS
  <1>2. \A f \in [{} -> T] : f = <<>>
    OBVIOUS
  <1> QED BY <1>1, <1>2, PartialFacts

-----------------------------------------------------------------------------
(* The order of updated_at. *)

LEMMA MinFacts ==
  ASSUME NEW S \in SUBSET Nat, S # {}
  PROVE  Min(S) \in S /\ \A s \in S : Min(S) <= s
  <1> DEFINE R == {p \in Nat \X Nat : p[1] < p[2]}
  <1>1. IsWellFoundedOn(R, Nat)
    BY NatLessThanWellFounded DEF OpToRel
  <1>2. PICK n \in S : \A m \in S : ~(<<m, n>> \in R)
    <2> HIDE DEF R
    <2> QED BY <1>1, WFMin
  <1>3. \A m \in S : n <= m
    <2> SUFFICES ASSUME NEW m \in S PROVE n <= m
      OBVIOUS
    <2>1. m \in Nat /\ n \in Nat /\ ~(<<m, n>> \in R)
      BY <1>2
    <2> QED BY <2>1
  <1> QED BY <1>3 DEF Min

LEMMA WorkerNames ==
  /\ Workers = {"discovery", "refresh"} /\ "discovery" # "refresh"
  /\ "discovery" \in Workers /\ "refresh" \in Workers
  BY DEF Workers

(* Counting the lower times keeps the order of times, and does nothing when *)
(* it is done again.                                                        *)
LEMMA RanksFacts ==
  ASSUME NEW S, IsFiniteSet(S), NEW time \in [S -> Nat]
  PROVE  /\ DOMAIN Ranks(time) = S
         /\ \A x \in S : Ranks(time)[x] \in Nat /\ Ranks(time)[x] < Cardinality(S)
         /\ \A x, y \in S : Ranks(time)[x] < Ranks(time)[y] <=> time[x] < time[y]
         /\ Ranks(Ranks(time)) = Ranks(time)
  <1> DEFINE Lower(x) == {y \in S : time[y] < time[x]}
             ranks == Ranks(time)
  <1>1. /\ DOMAIN ranks = S
        /\ \A x \in S : ranks[x] = Cardinality(Lower(x))
        /\ ranks = [x \in S |-> Cardinality(Lower(x))]
    BY DEF Ranks
  <1>2. \A A \in SUBSET S : IsFiniteSet(A) /\ Cardinality(A) \in Nat
    BY FS_Subset, FS_CardinalityType
  <1>3. ASSUME NEW A \in SUBSET S, NEW B \in SUBSET A, NEW x \in A, x \notin B
        PROVE  Cardinality(B) < Cardinality(A)
    <2>1. IsFiniteSet(A) /\ Cardinality(A) \in Nat /\ Cardinality(B) \in Nat
      BY <1>2
    <2>2. Cardinality(B) <= Cardinality(A) /\ Cardinality(A) # Cardinality(B)
      BY <1>3, <2>1, FS_Subset
    <2> QED BY <2>1, <2>2
  <1>4. ASSUME NEW x \in S
        PROVE  ranks[x] \in Nat /\ ranks[x] < Cardinality(S)
    <2>1. Lower(x) \in SUBSET S /\ x \notin Lower(x)
      OBVIOUS
    <2>2. Cardinality(Lower(x)) < Cardinality(S) /\ Cardinality(Lower(x)) \in Nat
      <3> HIDE DEF Lower
      <3> QED BY <1>2, <1>3, <2>1
    <2> QED BY <1>1, <2>2
  <1>5. ASSUME NEW x \in S, NEW y \in S
        PROVE  ranks[x] < ranks[y] <=> time[x] < time[y]
    <2>1. /\ ranks[x] = Cardinality(Lower(x)) /\ ranks[y] = Cardinality(Lower(y))
          /\ ranks[x] \in Nat /\ ranks[y] \in Nat
      BY <1>1, <1>4
    <2>2. CASE time[x] < time[y]
      <3>1. /\ Lower(x) \in SUBSET Lower(y) /\ Lower(y) \in SUBSET S
            /\ x \in Lower(y) /\ x \notin Lower(x)
        BY <2>2
      <3>2. Cardinality(Lower(x)) < Cardinality(Lower(y))
        <4> HIDE DEF Lower
        <4> QED BY <1>3, <3>1
      <3> QED BY <2>1, <2>2, <3>2
    <2>3. CASE ~(time[x] < time[y])
      <3>1. Lower(y) \in SUBSET Lower(x) /\ Lower(x) \in SUBSET S
        BY <2>3
      <3>2. Cardinality(Lower(y)) <= Cardinality(Lower(x))
        <4> HIDE DEF Lower
        <4> QED BY <1>2, <3>1, FS_Subset
      <3> HIDE DEF Lower
      <3> QED BY <2>1, <2>3, <3>2
    <2> QED BY <2>2, <2>3
  <1>6. Ranks(ranks) = [x \in S |-> Cardinality({y \in S : ranks[y] < ranks[x]})]
    <2> HIDE DEF ranks
    <2> QED BY <1>1 DEF Ranks
  <1>7. \A x \in S : {y \in S : ranks[y] < ranks[x]} = Lower(x)
    BY <1>5
  <1>8. Ranks(ranks) = ranks
    <2> HIDE DEF Lower, ranks
    <2> QED BY <1>1, <1>6, <1>7
  <1> QED BY <1>1, <1>4, <1>5, <1>8

LEMMA OlderFacts ==
  ASSUME MarketTypeOK
  PROVE  /\ IsFiniteSet(DOMAIN older) /\ DOMAIN older = Stored \cup Writing
         /\ Stored \in SUBSET Markets /\ Writing \in SUBSET Workers
         /\ older \in [DOMAIN older -> Nat]
         /\ \A x \in DOMAIN older : older[x] < Cardinality(DOMAIN older)
         /\ Cardinality(DOMAIN older) \in Nat
  <1>1. Stored \in SUBSET Markets /\ Writing \in SUBSET Workers
    BY PartialFacts DEF MarketTypeOK, Stored, Writing
  <1>2. DOMAIN older = Stored \cup Writing /\ older = Ranks(older)
    BY DEF MarketTypeOK
  <1>3. IsFiniteSet(Workers)
    <2>1. Workers = {"discovery"} \cup {"refresh"}
      BY WorkerNames
    <2> QED BY <2>1, FS_Union, FS_Singleton
  <1>4. IsFiniteSet(DOMAIN older)
    <2>1. IsFiniteSet(Stored) /\ IsFiniteSet(Writing)
      BY <1>1, <1>3, FS_Subset, MarketRefreshAssumption
    <2> QED BY <1>2, <2>1, FS_Union
  <1>5. ASSUME NEW x \in DOMAIN older
        PROVE  older[x] \in Nat
    <2> DEFINE A == {y \in DOMAIN older : older[y] < older[x]}
    <2>1. older[x] = Cardinality(A)
      BY <1>2 DEF Ranks
    <2>2. A \in SUBSET DOMAIN older
      OBVIOUS
    <2> HIDE DEF A
    <2> QED BY <1>4, <2>1, <2>2, FS_Subset, FS_CardinalityType
  <1>6. older = [x \in DOMAIN older |-> older[x]]
    BY <1>2 DEF Ranks
  <1>7. older \in [DOMAIN older -> Nat]
    BY <1>5, <1>6
  <1>8. \A x \in DOMAIN older : Ranks(older)[x] < Cardinality(DOMAIN older)
    BY <1>4, <1>7, RanksFacts
  <1> QED BY <1>1, <1>2, <1>4, <1>7, <1>8, FS_CardinalityType

(* The typing of the order of times. *)
OrderOK ==
    /\ DOMAIN older = Stored \cup Writing /\ older = Ranks(older)
    /\ aged \subseteq DOMAIN older
    /\ \A x \in aged, y \in DOMAIN older : older[y] <= older[x] => y \in aged

(* A transaction that begins is later than everything.                      *)
LEMMA BeginOrder ==
  ASSUME MarketTypeOK, NEW w \in Workers, w \notin Writing, Begin(w),
         Stored' = Stored, Writing' = Writing \cup {w}, aged' = aged
  PROVE  OrderOK'
  <1> DEFINE D == DOMAIN older
             N == Cardinality(D)
  <1>1. /\ D = Stored \cup Writing /\ N \in Nat
        /\ \A x \in D : older[x] \in Nat /\ older[x] < N
        /\ older = Ranks(older)
        /\ aged \subseteq D /\ \A x \in aged, y \in D : older[y] <= older[x] => y \in aged
    BY OlderFacts DEF MarketTypeOK
  <1>2. w \notin D
    BY <1>1, OlderFacts, MarketRefreshAssumption
  <1>3. /\ DOMAIN older' = D \cup {w} /\ older'[w] = N
        /\ \A x \in D : older'[x] = older[x]
        /\ older' = [x \in D \cup {w} |-> older'[x]]
    BY <1>2 DEF Begin
  <1>4. \A x \in D \cup {w} :
          older'[x] = Cardinality({y \in D \cup {w} : older'[y] < older'[x]})
    <2>1. {y \in D \cup {w} : older'[y] < older'[w]} = D
      BY <1>1, <1>3
    <2>2. ASSUME NEW x \in D
          PROVE  older'[x] = Cardinality({y \in D \cup {w} : older'[y] < older'[x]})
      <3>1. {y \in D \cup {w} : older'[y] < older'[x]} = {y \in D : older[y] < older[x]}
        BY <1>1, <1>2, <1>3
      <3>2. older[x] = Cardinality({y \in D : older[y] < older[x]})
        BY <1>1 DEF Ranks
      <3> QED BY <1>3, <3>1, <3>2
    <2> QED BY <1>3, <2>1, <2>2
  <1>5. older' = Ranks(older')
    BY <1>3, <1>4 DEF Ranks
  <1>6. ASSUME NEW x \in aged', NEW y \in DOMAIN older', older'[y] <= older'[x]
        PROVE  y \in aged'
    BY <1>1, <1>2, <1>3, <1>6
  <1>7. DOMAIN older' = Stored' \cup Writing' /\ aged' \subseteq DOMAIN older'
    BY <1>1, <1>3
  <1> QED BY <1>5, <1>6, <1>7 DEF OrderOK

(* Times taken from older, for some of the rows and transactions, with      *)
(* those before the cutoff.                                                 *)
LEMMA RetimedOrder ==
  ASSUME MarketTypeOK, NEW left, IsFiniteSet(left), NEW timed \in [left -> DOMAIN older],
         older' = Ranks([x \in left |-> older[timed[x]]]),
         aged' = {x \in left : timed[x] \in aged},
         left = Stored' \cup Writing'
  PROVE  OrderOK'
  <1> DEFINE time == [x \in left |-> older[timed[x]]]
  <1>1. time \in [left -> Nat]
    BY OlderFacts
  <1>2. /\ DOMAIN older' = left /\ Ranks(older') = older'
        /\ \A x \in left : older'[x] \in Nat
        /\ \A x, y \in left : older'[x] < older'[y] <=> time[x] < time[y]
    <2> HIDE DEF time
    <2>1. older' = Ranks(time)
      BY DEF time
    <2> QED BY <1>1, <2>1, RanksFacts
  <1>3. ASSUME NEW x \in aged', NEW y \in left, older'[y] <= older'[x]
        PROVE  y \in aged'
    <2>1. x \in left /\ timed[x] \in aged /\ timed[y] \in DOMAIN older
      OBVIOUS
    <2>2. ~(time[x] < time[y]) /\ time[x] \in Nat /\ time[y] \in Nat
      BY <1>1, <1>2, <1>3, <2>1
    <2>3. older[timed[y]] <= older[timed[x]]
      BY <2>1, <2>2
    <2>4. timed[y] \in aged
      BY <2>1, <2>3 DEF MarketTypeOK
    <2> QED BY <2>4
  <1> QED BY <1>2, <1>3 DEF OrderOK

(* The rows of a transaction get its time; whether it commits or not, it is *)
(* no longer open.                                                          *)
LEMMA EndOrder ==
  ASSUME MarketTypeOK, NEW w \in Writing, NEW written \in SUBSET Markets,
         EndTransaction(w, written),
         Stored' = Stored \cup written, Writing' = Writing \ {w}
  PROVE  OrderOK'
  <1> DEFINE left == (DOMAIN older \ {w}) \cup written
             timed == [x \in left |-> IF x \in written THEN w ELSE x]
  <1>1. /\ DOMAIN older = Stored \cup Writing /\ IsFiniteSet(DOMAIN older)
        /\ Stored \in SUBSET Markets /\ w \in Workers /\ Markets \cap Workers = {}
    BY OlderFacts, MarketRefreshAssumption DEF Writing
  <1>2. IsFiniteSet(left)
    <2>1. IsFiniteSet(DOMAIN older \ {w}) /\ IsFiniteSet(written)
      BY <1>1, FS_Subset, MarketRefreshAssumption
    <2> QED BY <2>1, FS_Union
  <1>3. timed \in [left -> DOMAIN older]
    BY <1>1
  <1>4. left = Stored' \cup Writing'
    BY <1>1
  <1>5. [x \in left |-> older[timed[x]]]
          = [x \in left |-> older[IF x \in written THEN w ELSE x]]
    OBVIOUS
  <1>6. /\ older' = Ranks([x \in left |-> older[timed[x]]])
        /\ aged' = {x \in left : timed[x] \in aged}
    <2>1. /\ older' = Ranks([x \in left |-> older[IF x \in written THEN w ELSE x]])
          /\ aged' = {x \in left : (IF x \in written THEN w ELSE x) \in aged}
      BY DEF EndTransaction
    <2>2. {x \in left : (IF x \in written THEN w ELSE x) \in aged}
            = {x \in left : timed[x] \in aged}
      OBVIOUS
    <2> QED BY <1>5, <2>1, <2>2
  <1> HIDE DEF left, timed
  <1> QED BY <1>2, <1>3, <1>4, <1>6, RetimedOrder

-----------------------------------------------------------------------------
(* What the actions write. *)

(* The typing of the table and that of the workers. *)
TableOK == row \in Partial(Row) /\ OrderOK

WorkersOK ==
    /\ worker \in [Workers -> {"idle", "fetch", "upsert", "clob", "merge"}]
    /\ todo \in [Workers -> Partial(TokenField)]
    /\ found \in [Workers -> Partial(Row)]

GammaOK == gamma \in [Markets -> 0..Len(Life)] /\ gone \subseteq Delisted

LEMMA TypeParts ==
  /\ MarketTypeOK <=> GammaOK /\ TableOK /\ WorkersOK /\ faults \in 0..MaxFaults
  /\ MarketTypeOK' <=> GammaOK' /\ TableOK' /\ WorkersOK' /\ faults' \in 0..MaxFaults
  BY DEF MarketTypeOK, GammaOK, TableOK, OrderOK, WorkersOK

LEMMA WritingFacts ==
  ASSUME MarketTypeOK, NEW w \in Workers, NEW s, worker' = [worker EXCEPT ![w] = s]
  PROVE  Writing' = IF s \in {"upsert", "merge"} THEN Writing \cup {w} ELSE Writing \ {w}
  BY DEF MarketTypeOK, Writing

LEMMA StatusFacts ==
  ASSUME NEW flags \in Flags
  PROVE  Status(flags) \in Statuses
  BY DEF Flags, Status, Statuses

LEMMA FaultFacts ==
  ASSUME MarketTypeOK, Fault
  PROVE  faults' \in 0..MaxFaults
  BY MarketRefreshAssumption DEF MarketTypeOK, Fault

LEMMA UpsertedFacts ==
  ASSUME MarketTypeOK, NEW m, NEW new \in Row
  PROVE  /\ Upserted(m, new) \in Row
         /\ Upserted(m, new).status = new.status
         /\ Upserted(m, new).tokens = IF m \in Stored /\ new.tokens = "none"
                                      THEN row[m].tokens ELSE new.tokens
  <1>1. m \in Stored => row[m] \in Row
    BY PartialFacts DEF MarketTypeOK, Stored
  <1>2. m \in Stored => row[m].tokens \in TokenField
    BY <1>1 DEF Row
  <1> QED BY <1>2 DEF Upserted, Row

(* Both upserts of a cycle: the second one ends it. *)
LEMMA UpsertFacts ==
  ASSUME MarketTypeOK, NEW w \in Workers, Upsert(w) \/ MergeUpsert(w)
  PROVE  /\ UNCHANGED <<gamma, gone, todo>>
         /\ UpsertMarketsBatch(w) /\ found[w] \in Partial(Row)
         /\ worker[w] \in {"upsert", "merge"}
         /\ \/ /\ worker[w] = "upsert"
               /\ worker' = [worker EXCEPT ![w] = "clob"]
               /\ found' = found
            \/ /\ found' = [found EXCEPT ![w] = <<>>]
               /\ worker' = [worker EXCEPT ![w] = "idle"]
  BY DEF Upsert, MergeUpsert, MarketTypeOK

(* The transaction is rolled back, or it replaces and adds rows. *)
LEMMA CommitFacts ==
  ASSUME MarketTypeOK, NEW w \in Workers, Upsert(w) \/ MergeUpsert(w)
  PROVE  /\ TableOK' /\ faults' \in 0..MaxFaults
         /\ \/ row' = row /\ Stored' = Stored
            \/ /\ Stored' = Stored \cup DOMAIN found[w]
               /\ \A m \in Stored' :
                      row'[m] = IF m \in DOMAIN found[w] THEN Upserted(m, found[w][m])
                                                         ELSE row[m]
  <1> DEFINE batch == found[w]
  <1>1. batch \in Partial(Row) /\ UpsertMarketsBatch(w) /\ w \in Writing
    BY UpsertFacts DEF Writing
  <1>2. Writing' = Writing \ {w}
    <2>1. \/ worker' = [worker EXCEPT ![w] = "clob"]
          \/ worker' = [worker EXCEPT ![w] = "idle"]
      BY UpsertFacts
    <2>2. CASE worker' = [worker EXCEPT ![w] = "clob"]
      <3>1. "clob" \notin {"upsert", "merge"}
        OBVIOUS
      <3> QED BY <2>2, <3>1, WritingFacts
    <2>3. CASE worker' = [worker EXCEPT ![w] = "idle"]
      <3>1. "idle" \notin {"upsert", "merge"}
        OBVIOUS
      <3> QED BY <2>3, <3>1, WritingFacts
    <2> QED BY <2>1, <2>2, <2>3
  <1>3. CASE Committed(w) /\ UNCHANGED faults
    <2> DEFINE W == Stored \cup DOMAIN batch
               e == [m \in W |-> IF m \in DOMAIN batch THEN Upserted(m, batch[m]) ELSE row[m]]
    <2>1. row' = e /\ Stored' = W /\ EndTransaction(w, DOMAIN batch)
      BY <1>3 DEF Committed, Stored
    <2>2. /\ W \in SUBSET Markets /\ DOMAIN batch \in SUBSET Markets
          /\ \A m \in DOMAIN batch : batch[m] \in Row
          /\ \A m \in Stored : row[m] \in Row
      BY <1>1, PartialFacts DEF MarketTypeOK, Stored
    <2>3. \A m \in W : e[m] \in Row
      BY <2>2, UpsertedFacts
    <2>4. e \in [W -> Row]
      BY <2>3
    <2>5. row' \in Partial(Row)
      BY <2>1, <2>2, <2>4 DEF Partial
    <2>6. OrderOK'
      BY <1>1, <1>2, <2>1, <2>2, EndOrder
    <2>7. faults' \in 0..MaxFaults
      BY <1>3 DEF MarketTypeOK
    <2> QED BY <2>1, <2>5, <2>6, <2>7 DEF TableOK
  <1>4. CASE RolledBack(w) /\ (Fault \/ UNCHANGED faults)
    <2>1. row' = row /\ Stored' = Stored \cup {} /\ EndTransaction(w, {})
      BY <1>4 DEF RolledBack, Stored
    <2>2. OrderOK'
      BY <1>1, <1>2, <2>1, EndOrder
    <2>3. faults' \in 0..MaxFaults
      BY <1>4, FaultFacts DEF MarketTypeOK
    <2> QED BY <2>1, <2>2, <2>3 DEF TableOK, MarketTypeOK
  <1> QED BY <1>1, <1>3, <1>4 DEF UpsertMarketsBatch

(* The worker is done with one market. *)
LEMMA DequeueFacts ==
  ASSUME MarketTypeOK, NEW w \in Workers, NEW m \in DOMAIN todo[w], Dequeue(w, m)
  PROVE  /\ todo' \in [Workers -> Partial(TokenField)]
         /\ DOMAIN todo'[w] = DOMAIN todo[w] \ {m}
         /\ \A r \in DOMAIN todo'[w] : todo'[w][r] = todo[w][r]
         /\ \A v \in Workers \ {w} : todo'[v] = todo[v]
  <1> DEFINE S == DOMAIN todo[w] \ {m}
             e == [r \in S |-> todo[w][r]]
  <1>1. todo[w] \in Partial(TokenField) /\ todo \in [Workers -> Partial(TokenField)]
    BY DEF MarketTypeOK
  <1>2. e \in [S -> TokenField] /\ S \in SUBSET Markets
    BY <1>1, PartialFacts
  <1>3. e \in Partial(TokenField)
    BY <1>2 DEF Partial
  <1>4. todo' = [todo EXCEPT ![w] = e]
    BY DEF Dequeue, Restrict
  <1>5. todo'[w] = e /\ DOMAIN e = S /\ \A r \in S : e[r] = todo[w][r]
    BY <1>1, <1>4
  <1> HIDE DEF e
  <1> QED BY <1>1, <1>3, <1>4, <1>5

(* The worker keeps what Gamma said of a market. *)
LEMMA FetchFoundFacts ==
  ASSUME MarketTypeOK, NEW w \in Workers, FetchFound(w)
  PROVE  \E m \in DOMAIN todo[w], new \in Row :
           /\ Answers(m) /\ Dequeue(w, m)
           /\ new.status = Status(Life[gamma[m]])
           /\ w = "refresh" /\ todo[w][m] # "blank" => new.tokens # "blank"
           /\ found' \in [Workers -> Partial(Row)]
           /\ DOMAIN found'[w] = DOMAIN found[w] \cup {m}
           /\ \A r \in DOMAIN found'[w] : found'[w][r] = IF r = m THEN new ELSE found[w][r]
           /\ \A v \in Workers \ {w} : found'[v] = found[v]
  <1>1. PICK m \in DOMAIN todo[w], answer \in TokenAnswers :
           /\ Answers(m) /\ Dequeue(w, m)
           /\ Keep(w, m, [status |-> Status(Life[gamma[m]]),
                          tokens |-> IF w = "refresh"
                                     THEN Preserved(todo[w][m], answer)
                                     ELSE answer])
    BY DEF FetchFound
  <1> DEFINE read == todo[w][m]
             new == [status |-> Status(Life[gamma[m]]),
                     tokens |-> IF w = "refresh" THEN Preserved(read, answer) ELSE answer]
             S == DOMAIN found[w] \cup {m}
             e == [r \in S |-> IF r = m THEN new ELSE found[w][r]]
  <1>2. /\ m \in Markets /\ read \in TokenField /\ answer \in TokenField
    BY PartialFacts, MarketRefreshAssumption DEF MarketTypeOK
  <1>3. Status(Life[gamma[m]]) \in Statuses
    <2>1. gamma[m] \in 1..Len(Life)
      BY <1>1, <1>2, MarketRefreshAssumption DEF MarketTypeOK, Answers
    <2>2. Life[gamma[m]] \in Flags
      BY <2>1, MarketRefreshAssumption
    <2> QED BY <2>2, StatusFacts
  <1>4. new \in Row /\ (w = "refresh" /\ read # "blank" => new.tokens # "blank")
    BY <1>2, <1>3 DEF Row, Preserved, TokenField
  <1>5. found[w] \in Partial(Row) /\ found \in [Workers -> Partial(Row)]
    BY DEF MarketTypeOK
  <1>6. e \in Partial(Row)
    <2>1. S \in SUBSET Markets /\ \A r \in DOMAIN found[w] : found[w][r] \in Row
      BY <1>2, <1>5, PartialFacts
    <2>2. e \in [S -> Row]
      BY <1>4, <2>1
    <2> QED BY <2>1, <2>2 DEF Partial
  <1>7. found' = [found EXCEPT ![w] = e]
    BY <1>1 DEF Keep
  <1>8. /\ found' \in [Workers -> Partial(Row)]
        /\ DOMAIN found'[w] = S
        /\ \A r \in S : found'[w][r] = IF r = m THEN new ELSE found[w][r]
        /\ \A v \in Workers \ {w} : found'[v] = found[v]
    <2>1. DOMAIN e = S /\ \A r \in S : e[r] = IF r = m THEN new ELSE found[w][r]
      OBVIOUS
    <2> HIDE DEF e
    <2> QED BY <1>5, <1>6, <1>7, <2>1
  <1>9. new.status = Status(Life[gamma[m]])
    OBVIOUS
  <1> HIDE DEF new
  <1> QED BY <1>1, <1>4, <1>8, <1>9

-----------------------------------------------------------------------------
(* Type correctness: one step per action. *)

LEMMA TypeKept ==
  ASSUME MarketTypeOK
  PROVE  /\ UNCHANGED <<gamma, gone>> => GammaOK'
         /\ UNCHANGED <<row, older, aged>> /\ Writing' = Writing => TableOK'
         /\ UNCHANGED workerVars => WorkersOK' /\ Writing' = Writing
         /\ UNCHANGED faults => faults' \in 0..MaxFaults
  <1>1. GammaOK /\ TableOK /\ WorkersOK /\ faults \in 0..MaxFaults
    BY TypeParts
  <1>2. UNCHANGED <<row, older, aged>> /\ Writing' = Writing => TableOK'
    <2> SUFFICES ASSUME UNCHANGED <<row, older, aged>>, Writing' = Writing
                 PROVE  TableOK'
      OBVIOUS
    <2>1. Stored' = Stored
      BY DEF Stored
    <2>2. OrderOK' = OrderOK
      BY <2>1 DEF OrderOK, Ranks
    <2> QED BY <1>1, <2>2 DEF TableOK
  <1> QED BY <1>1, <1>2 DEF GammaOK, WorkersOK, workerVars, Writing

LEMMA TypeInit == Init => MarketTypeOK
  <1> SUFFICES ASSUME Init PROVE MarketTypeOK
    OBVIOUS
  <1>1. /\ <<>> \in Partial(Row) /\ <<>> \in Partial(TokenField) /\ DOMAIN <<>> = {}
    BY EmptyFacts
  <1>2. Len(Life) \in Nat /\ MaxFaults \in Nat
    BY MarketRefreshAssumption
  <1>3. Stored = {} /\ Writing = {}
    BY <1>1 DEF Init, Stored, Writing
  <1>4. Ranks(<<>>) = <<>>
    <2>1. DOMAIN Ranks(<<>>) = {} /\ Ranks(<<>>) = [x \in {} |-> Ranks(<<>>)[x]]
      BY <1>1 DEF Ranks
    <2> QED BY <2>1
  <1> QED BY <1>1, <1>2, <1>3, <1>4 DEF Init, MarketTypeOK

LEMMA TypeGamma ==
  ASSUME MarketTypeOK,
         (\E m \in Markets : Advance(m)) \/ \E m \in Delisted : Delist(m)
  PROVE  MarketTypeOK'
  <1>1. UNCHANGED <<row, older, aged, workerVars, faults>>
    BY DEF Advance, Delist
  <1>2. GammaOK'
    <2>1. ASSUME NEW m \in Markets, Advance(m) PROVE GammaOK'
      <3>1. gamma[m] + 1 \in 0..Len(Life)
        BY <2>1, MarketRefreshAssumption DEF MarketTypeOK, Advance
      <3> QED BY <2>1, <3>1 DEF MarketTypeOK, GammaOK, Advance
    <2>2. ASSUME NEW m \in Delisted, Delist(m) PROVE GammaOK'
      BY <2>2 DEF MarketTypeOK, GammaOK, Delist
    <2> QED BY <2>1, <2>2
  <1> QED BY <1>1, <1>2, TypeKept, TypeParts

LEMMA TypeAge ==
  ASSUME MarketTypeOK, Age
  PROVE  MarketTypeOK'
  <1> DEFINE ages == {older[y] : y \in DOMAIN older \ aged}
  <1>1. /\ aged # DOMAIN older /\ aged \subseteq DOMAIN older
        /\ aged' = {x \in DOMAIN older : older[x] <= Min(ages)}
        /\ UNCHANGED <<gamma, gone, row, older, workerVars, faults>>
    BY DEF Age, MarketTypeOK
  <1>2. \A x \in DOMAIN older : older[x] \in Nat
    BY OlderFacts
  <1>3. ages \in SUBSET Nat /\ ages # {}
    BY <1>1, <1>2
  <1>4. Min(ages) \in Nat
    <2> HIDE DEF ages
    <2> QED BY <1>3, MinFacts
  <1>5. Stored' = Stored /\ Writing' = Writing
    BY <1>1, TypeKept DEF Stored
  <1>6. ASSUME NEW x \in aged', NEW y \in DOMAIN older, older[y] <= older[x]
        PROVE  y \in aged'
    <2> HIDE DEF ages
    <2>1. x \in DOMAIN older /\ older[x] <= Min(ages)
      BY <1>1
    <2>2. older[y] <= Min(ages)
      BY <1>2, <1>4, <1>6, <2>1
    <2> QED BY <1>1, <2>2
  <1>7. TableOK'
    <2>1. older' = Ranks(older') /\ DOMAIN older' = Stored' \cup Writing'
      BY <1>1, <1>5 DEF MarketTypeOK
    <2>2. aged' \subseteq DOMAIN older'
      BY <1>1
    <2> QED BY <1>1, <1>6, <2>1, <2>2 DEF MarketTypeOK, TableOK, OrderOK
  <1> QED BY <1>1, <1>7, TypeKept, TypeParts

(* A worker starts a cycle: discovery with markets that are not stored, the *)
(* refresh worker with stored ones and their token ids.                     *)
LEMMA StartFacts ==
  ASSUME MarketTypeOK, DiscoveryStart \/ RefreshStart
  PROVE  \E w \in Workers, e \in Partial(TokenField) :
           /\ worker[w] = "idle" /\ worker' = [worker EXCEPT ![w] = "fetch"]
           /\ todo' = [todo EXCEPT ![w] = e]
           /\ UNCHANGED <<gamma, gone, row, older, aged, found, faults>>
           /\ w = "discovery" => DOMAIN e \cap Stored = {}
           /\ w = "refresh" => /\ DOMAIN e \subseteq Stored
                              /\ \A m \in DOMAIN e : e[m] = row[m].tokens
  <1>1. CASE DiscoveryStart
    <2>1. PICK S \in SUBSET Unstored :
            todo' = [todo EXCEPT !["discovery"] = [m \in S |-> "none"]]
      BY <1>1 DEF DiscoveryStart
    <2> DEFINE e == [m \in S |-> "none"]
    <2>2. /\ S \in SUBSET Markets /\ S \cap Stored = {} /\ DOMAIN e = S
          /\ e \in [S -> TokenField]
      BY DEF Unstored, TokenField
    <2>3. e \in Partial(TokenField) /\ "discovery" \in Workers
      BY <2>2 DEF Partial, Workers
    <2> HIDE DEF e
    <2> QED BY <1>1, <2>1, <2>2, <2>3 DEF DiscoveryStart, e
  <1>2. CASE RefreshStart
    <2>1. PICK S \in SUBSET Stored :
            todo' = [todo EXCEPT !["refresh"] = [m \in S |-> row[m].tokens]]
      BY <1>2 DEF RefreshStart, kSubset
    <2> DEFINE e == [m \in S |-> row[m].tokens]
    <2>2. \A m \in S : m \in Markets /\ row[m].tokens \in TokenField
      <3>1. \A m \in S : m \in Markets /\ row[m] \in Row
        BY PartialFacts DEF MarketTypeOK, Stored
      <3> QED BY <3>1 DEF Row
    <2>3. /\ S \in SUBSET Markets /\ DOMAIN e = S /\ e \in [S -> TokenField]
          /\ \A m \in S : e[m] = row[m].tokens
      BY <2>2
    <2>4. e \in Partial(TokenField) /\ "refresh" \in Workers
      BY <2>3 DEF Partial, Workers
    <2>5. /\ worker["refresh"] = "idle" /\ worker' = [worker EXCEPT !["refresh"] = "fetch"]
          /\ UNCHANGED <<gamma, gone, row, older, aged, found, faults>>
          /\ todo' = [todo EXCEPT !["refresh"] = e]
      BY <1>2, <2>1 DEF RefreshStart
    <2> HIDE DEF e
    <2> QED BY <2>3, <2>4, <2>5
  <1> QED BY <1>1, <1>2

LEMMA TypeStart ==
  ASSUME MarketTypeOK, DiscoveryStart \/ RefreshStart
  PROVE  MarketTypeOK'
  <1>1. UNCHANGED <<gamma, gone, row, older, aged, faults>>
    BY StartFacts
  <1>2. WorkersOK' /\ Writing' = Writing
    BY StartFacts DEF MarketTypeOK, WorkersOK, Writing
  <1> QED BY <1>1, <1>2, TypeKept, TypeParts

LEMMA TypeFetch ==
  ASSUME MarketTypeOK, NEW w \in Workers, FetchFound(w) \/ FetchNothing(w)
  PROVE  MarketTypeOK'
  <1>1. UNCHANGED <<gamma, gone, row, older, aged, worker>> /\ Writing' = Writing
    BY DEF FetchFound, FetchNothing, Writing
  <1>2. CASE FetchFound(w)
    <2>1. UNCHANGED faults
      BY <1>2 DEF FetchFound
    <2>2. found' \in [Workers -> Partial(Row)] /\ todo' \in [Workers -> Partial(TokenField)]
      BY <1>2, FetchFoundFacts, DequeueFacts
    <2> QED BY <1>1, <2>1, <2>2, TypeKept, TypeParts DEF MarketTypeOK, WorkersOK
  <1>3. CASE FetchNothing(w)
    <2>1. UNCHANGED found /\ faults' \in 0..MaxFaults
      BY <1>3, FaultFacts DEF FetchNothing, MarketTypeOK
    <2>2. todo' \in [Workers -> Partial(TokenField)]
      BY <1>3, DequeueFacts DEF FetchNothing
    <2> QED BY <1>1, <2>1, <2>2, TypeKept, TypeParts DEF MarketTypeOK, WorkersOK
  <1> QED BY <1>2, <1>3

(* The worker leaves a loop: the next transaction begins, or the cycle ends. *)
LEMMA TypeBegin ==
  ASSUME MarketTypeOK, NEW w \in Workers, FetchesDone(w) \/ BooksMerged(w)
  PROVE  MarketTypeOK'
  <1>1. /\ UNCHANGED <<gamma, gone, row, aged, todo, found, faults>> /\ Stored' = Stored
        /\ w \notin Writing
    BY DEF FetchesDone, BooksMerged, Stored, Writing
  <1>2. PICK s \in {"idle", "upsert", "merge"} :
          /\ worker' = [worker EXCEPT ![w] = s]
          /\ IF s = "idle" THEN UNCHANGED older ELSE Begin(w)
    BY DEF FetchesDone, BooksMerged
  <1>3. WorkersOK'
    BY <1>1, <1>2 DEF MarketTypeOK, WorkersOK
  <1>4. Writing' = IF s = "idle" THEN Writing ELSE Writing \cup {w}
    BY <1>1, <1>2, WritingFacts
  <1>5. TableOK'
    <2>1. CASE s = "idle"
      BY <1>1, <1>2, <1>4, <2>1, TypeKept
    <2>2. CASE s # "idle"
      BY <1>1, <1>2, <1>4, <2>2, BeginOrder DEF MarketTypeOK, TableOK
    <2> QED BY <2>1, <2>2
  <1> QED BY <1>1, <1>3, <1>5, TypeKept, TypeParts

LEMMA TypeUpsert ==
  ASSUME MarketTypeOK, NEW w \in Workers, Upsert(w) \/ MergeUpsert(w)
  PROVE  MarketTypeOK'
  <1>1. TableOK' /\ faults' \in 0..MaxFaults
    BY UpsertFacts, CommitFacts
  <1>2. WorkersOK'
    <2>1. <<>> \in Partial(Row)
      BY EmptyFacts
    <2> QED BY <2>1, UpsertFacts DEF MarketTypeOK, WorkersOK
  <1>3. GammaOK'
    BY UpsertFacts, TypeKept
  <1> QED BY <1>1, <1>2, <1>3, TypeParts

LEMMA TypeRestart ==
  ASSUME MarketTypeOK, Restart
  PROVE  MarketTypeOK'
  <1>1. WorkersOK'
    <2>1. <<>> \in Partial(Row) /\ <<>> \in Partial(TokenField)
      BY EmptyFacts
    <2> QED BY <2>1 DEF Restart, WorkersOK
  <1>2. UNCHANGED <<gamma, gone, row>> /\ faults' \in 0..MaxFaults
    BY FaultFacts DEF Restart
  <1>3. OrderOK'
    <2> DEFINE timed == [m \in Stored |-> m]
    <2>1. Stored' = Stored /\ Writing' = {}
      BY <1>2 DEF Restart, Stored, Writing
    <2>2. timed \in [Stored -> DOMAIN older] /\ IsFiniteSet(Stored)
      BY OlderFacts, FS_Subset
    <2>3. Restrict(older, Stored) = [m \in Stored |-> older[timed[m]]]
      BY DEF Restrict
    <2>4. /\ older' = Ranks([m \in Stored |-> older[timed[m]]])
          /\ aged' = {m \in Stored : timed[m] \in aged}
      <3>1. older' = Ranks(Restrict(older, Stored)) /\ aged' = aged \cap Stored
        BY DEF Restart
      <3> QED BY <2>3, <3>1
    <2> HIDE DEF timed
    <2> QED BY <2>1, <2>2, <2>4, RetimedOrder
  <1>4. TableOK'
    BY <1>2, <1>3 DEF MarketTypeOK, TableOK
  <1> QED BY <1>1, <1>2, <1>4, TypeKept, TypeParts

LEMMA TypeStep == MarketTypeOK /\ [Next]_vars => MarketTypeOK'
  <1> SUFFICES ASSUME MarketTypeOK, [Next]_vars PROVE MarketTypeOK'
    OBVIOUS
  <1>1. CASE UNCHANGED vars
    BY <1>1, TypeKept, TypeParts DEF vars
  <1>2. CASE (\E m \in Markets : Advance(m)) \/ \E m \in Delisted : Delist(m)
    BY <1>2, TypeGamma
  <1>3. CASE Age
    BY <1>3, TypeAge
  <1>4. CASE DiscoveryStart \/ RefreshStart
    BY <1>4, TypeStart
  <1>5. ASSUME NEW w \in Workers, Cycle(w) PROVE MarketTypeOK'
    BY <1>5, TypeFetch, TypeBegin, TypeUpsert DEF Cycle
  <1>6. CASE Restart
    BY <1>6, TypeRestart
  <1> QED BY <1>1, <1>2, <1>3, <1>4, <1>5, <1>6 DEF Next

(* The table, the order of its rows and what the workers hold stay within   *)
(* their types; in particular a commit, which may put its rows before those *)
(* of transactions that began later and have ended, leaves the rows in an   *)
(* order, and the rows past the cutoff are the oldest of them.              *)
THEOREM MarketTypeCorrect == Spec => []MarketTypeOK
  BY TypeInit, TypeStep, PTL DEF Spec

-----------------------------------------------------------------------------
(* What the workers hold. *)

HeldInv == MarketTypeOK /\ Held

LEMMA HeldInit == Init => HeldInv
  <1>1. DOMAIN <<>> = {}
    OBVIOUS
  <1> QED BY <1>1, TypeInit, WorkerNames DEF Init, HeldInv, Held

LEMMA HeldStart ==
  ASSUME HeldInv, DiscoveryStart \/ RefreshStart
  PROVE  Held'
  <1>1. MarketTypeOK /\ Held
    BY DEF HeldInv
  <1>2. PICK w \in Workers, e \in Partial(TokenField) :
           /\ worker[w] = "idle" /\ worker' = [worker EXCEPT ![w] = "fetch"]
           /\ todo' = [todo EXCEPT ![w] = e]
           /\ UNCHANGED <<gamma, gone, row, older, aged, found, faults>>
           /\ w = "discovery" => DOMAIN e \cap Stored = {}
           /\ w = "refresh" => /\ DOMAIN e \subseteq Stored
                              /\ \A m \in DOMAIN e : e[m] = row[m].tokens
    BY <1>1, StartFacts
  <1>3. /\ worker'[w] = "fetch" /\ todo'[w] = e /\ found'[w] = <<>>
        /\ \A v \in Workers \ {w} : worker'[v] = worker[v] /\ todo'[v] = todo[v]
        /\ found' = found /\ Stored' = Stored /\ DOMAIN <<>> = {}
    BY <1>1, <1>2 DEF MarketTypeOK, Held, Stored
  <1>4. CASE w = "discovery"
    BY <1>1, <1>2, <1>3, <1>4, WorkerNames DEF Held
  <1>5. CASE w = "refresh"
    BY <1>1, <1>2, <1>3, <1>5, WorkerNames DEF Held
  <1> QED BY <1>4, <1>5, WorkerNames

(* An answer moves a market from the list to the answers, or drops it. *)
LEMMA HeldFetch ==
  ASSUME HeldInv, NEW w \in Workers,
         FetchFound(w) \/ FetchNothing(w) \/ FetchesDone(w)
  PROVE  Held'
  <1>1. MarketTypeOK /\ Held /\ Stored' = Stored /\ worker[w] = "fetch"
    BY DEF HeldInv, FetchFound, FetchNothing, FetchesDone, Stored
  <1>2. CASE FetchFound(w) \/ FetchNothing(w)
    <2>1. /\ worker' = worker
          /\ DOMAIN todo'[w] \cup DOMAIN found'[w] \subseteq DOMAIN todo[w] \cup DOMAIN found[w]
          /\ \A v \in Workers \ {w} : todo'[v] = todo[v] /\ found'[v] = found[v]
      <3>1. CASE FetchFound(w)
        <4>1. PICK m \in DOMAIN todo[w], new \in Row :
                /\ Dequeue(w, m)
                /\ DOMAIN found'[w] = DOMAIN found[w] \cup {m}
                /\ \A v \in Workers \ {w} : found'[v] = found[v]
          BY <1>1, <3>1, FetchFoundFacts
        <4>2. /\ DOMAIN todo'[w] = DOMAIN todo[w] \ {m}
              /\ \A v \in Workers \ {w} : todo'[v] = todo[v]
          BY <1>1, <4>1, DequeueFacts
        <4> QED BY <3>1, <4>1, <4>2 DEF FetchFound
      <3>2. CASE FetchNothing(w)
        <4>1. PICK m \in DOMAIN todo[w] : Dequeue(w, m)
          BY <3>2 DEF FetchNothing
        <4>2. /\ DOMAIN todo'[w] = DOMAIN todo[w] \ {m}
              /\ \A v \in Workers \ {w} : todo'[v] = todo[v]
          BY <1>1, <4>1, DequeueFacts
        <4> QED BY <3>2, <4>2 DEF FetchNothing
      <3> QED BY <1>2, <3>1, <3>2
    <2>2. CASE w = "discovery"
      BY <1>1, <2>1, <2>2, WorkerNames DEF Held
    <2>3. CASE w = "refresh"
      BY <1>1, <2>1, <2>3, WorkerNames DEF Held
    <2> QED BY <2>2, <2>3, WorkerNames
  <1>3. CASE FetchesDone(w)
    <2>1. /\ todo' = todo /\ found' = found /\ todo[w] = <<>>
          /\ worker'[w] = IF found[w] = <<>> THEN "idle" ELSE "upsert"
          /\ \A v \in Workers \ {w} : worker'[v] = worker[v]
      BY <1>1, <1>3 DEF FetchesDone, MarketTypeOK
    <2>2. \A v \in Workers : /\ worker'[v] # "fetch" => todo'[v] = <<>>
                             /\ worker'[v] = "idle" => found'[v] = <<>>
      BY <1>1, <2>1 DEF Held
    <2>3. worker'["discovery"] \in {"fetch", "upsert"}
             => worker["discovery"] \in {"fetch", "upsert"}
      BY <1>1, <2>1, WorkerNames
    <2> QED BY <1>1, <2>1, <2>2, <2>3 DEF Held
  <1> QED BY <1>2, <1>3

LEMMA HeldUpsert ==
  ASSUME HeldInv, NEW w \in Workers, Upsert(w) \/ MergeUpsert(w)
  PROVE  Held'
  <1>1. MarketTypeOK /\ Held
    BY DEF HeldInv
  <1>2. /\ todo' = todo /\ worker[w] \in {"upsert", "merge"}
        /\ \/ worker'[w] = "clob" /\ found'[w] = found[w]
           \/ worker'[w] = "idle" /\ found'[w] = <<>>
        /\ \A v \in Workers \ {w} : worker'[v] = worker[v] /\ found'[v] = found[v]
    BY <1>1, UpsertFacts DEF MarketTypeOK
  <1>3. Stored \subseteq Stored' /\ Stored' \subseteq Stored \cup DOMAIN found[w]
    BY <1>1, UpsertFacts, CommitFacts
  <1>4. \A v \in Workers : /\ worker'[v] # "fetch" => todo'[v] = <<>>
                           /\ worker'[v] = "idle" => found'[v] = <<>>
    BY <1>1, <1>2 DEF Held
  <1>5. DOMAIN <<>> = {}
    OBVIOUS
  <1>6. DOMAIN todo'["refresh"] \cup DOMAIN found'["refresh"] \subseteq Stored'
    BY <1>1, <1>2, <1>3, <1>5, WorkerNames DEF Held
  <1>7. ASSUME worker'["discovery"] \in {"fetch", "upsert"}
        PROVE  (DOMAIN todo'["discovery"] \cup DOMAIN found'["discovery"]) \cap Stored' = {}
    <2>1. w = "refresh"
      BY <1>2, <1>7, WorkerNames
    <2>2. Stored' = Stored
      BY <1>1, <1>3, <2>1 DEF Held
    <2> QED BY <1>1, <1>2, <1>7, <2>1, <2>2, WorkerNames DEF Held
  <1> QED BY <1>4, <1>6, <1>7 DEF Held

LEMMA HeldRest ==
  ASSUME HeldInv,
         \/ UNCHANGED vars \/ Age \/ Restart \/ (\E w \in Workers : BooksMerged(w))
         \/ (\E m \in Markets : Advance(m)) \/ \E m \in Delisted : Delist(m)
  PROVE  Held'
  <1>1. CASE Restart
    <2>1. /\ \A w \in Workers : todo'[w] = <<>> /\ found'[w] = <<>>
          /\ DOMAIN <<>> = {}
      BY <1>1 DEF Restart
    <2> QED BY <2>1, WorkerNames DEF Held
  <1>2. CASE UNCHANGED <<row, worker, todo, found>>
    BY <1>2 DEF HeldInv, Held, Stored
  <1>3. ASSUME NEW w \in Workers, BooksMerged(w) PROVE Held'
    <2>1. /\ UNCHANGED <<row, todo, found>> /\ worker[w] = "clob" /\ worker'[w] = "merge"
          /\ \A v \in Workers \ {w} : worker'[v] = worker[v]
      BY <1>3 DEF BooksMerged, HeldInv, MarketTypeOK
    <2> QED BY <2>1, WorkerNames DEF HeldInv, Held, Stored
  <1> QED BY <1>1, <1>2, <1>3 DEF vars, workerVars, Age, Advance, Delist

LEMMA HeldStep == HeldInv /\ [Next]_vars => HeldInv'
  <1> SUFFICES ASSUME HeldInv, [Next]_vars PROVE HeldInv'
    OBVIOUS
  <1>1. MarketTypeOK'
    BY TypeStep DEF HeldInv
  <1>2. CASE \/ UNCHANGED vars \/ Age \/ Restart
             \/ (\E m \in Markets : Advance(m)) \/ \E m \in Delisted : Delist(m)
    BY <1>1, <1>2, HeldRest DEF HeldInv
  <1>3. CASE DiscoveryStart \/ RefreshStart
    BY <1>1, <1>3, HeldStart DEF HeldInv
  <1>4. ASSUME NEW w \in Workers, Cycle(w) PROVE HeldInv'
    BY <1>1, <1>4, HeldFetch, HeldUpsert, HeldRest DEF HeldInv, Cycle
  <1> QED BY <1>2, <1>3, <1>4 DEF Next

-----------------------------------------------------------------------------
(* Token ids. *)

TokenInv == HeldInv /\ TokensHeld

LEMMA TokensInit == Init => TokenInv
  <1>1. DOMAIN <<>> = {}
    OBVIOUS
  <1> QED BY <1>1, HeldInit, WorkerNames DEF Init, TokenInv, TokensHeld

(* What a commit does to the token ids of a stored market: the refresh      *)
(* worker keeps ids that are stored, and only it adds ids to a row that has *)
(* none.                                                                    *)
LEMMA CommitTokens ==
  ASSUME TokenInv, NEW w \in Workers, Upsert(w) \/ MergeUpsert(w), NEW m \in Stored
  PROVE  /\ m \in Stored'
         /\ row'[m].tokens # row[m].tokens => m \in DOMAIN found[w]
         /\ w = "refresh" /\ row[m].tokens = "ids" => row'[m].tokens = "ids"
         /\ w = "refresh" /\ row'[m].tokens = "ids" /\ row[m].tokens # "ids"
               => m \in DOMAIN found[w] /\ found[w][m].tokens = "ids"
         /\ w = "discovery" /\ row'[m].tokens = "ids" => row[m].tokens = "ids"
  <1>1. MarketTypeOK /\ Held /\ TokensHeld
    BY DEF TokenInv, HeldInv
  <1>2. found[w] \in Partial(Row) /\ UpsertMarketsBatch(w)
    BY <1>1, UpsertFacts
  <1>3. \/ row' = row /\ Stored' = Stored
        \/ /\ Stored' = Stored \cup DOMAIN found[w]
           /\ \A r \in Stored' :
                 row'[r] = IF r \in DOMAIN found[w] THEN Upserted(r, found[w][r]) ELSE row[r]
    BY <1>1, <1>2, CommitFacts
  <1>4. CASE (row' = row /\ Stored' = Stored) \/ m \notin DOMAIN found[w]
    <2>1. row'[m] = row[m] /\ m \in Stored'
      BY <1>3, <1>4
    <2> QED BY <2>1
  <1>5. CASE m \in DOMAIN found[w] /\ m \in Stored' /\ row'[m] = Upserted(m, found[w][m])
    <2>1. found[w][m] \in Row
      BY <1>2, <1>5, PartialFacts
    <2>2. row'[m].tokens = IF found[w][m].tokens = "none" THEN row[m].tokens
                                                          ELSE found[w][m].tokens
      BY <1>1, <1>5, <2>1, UpsertedFacts
    <2>3. found[w][m].tokens \in {"none", "blank", "ids"}
      BY <2>1 DEF Row, TokenField
    <2>4. CASE w = "refresh"
      <3>1. row[m].tokens = "ids" => found[w][m].tokens # "blank"
        BY <1>1, <1>5, <2>4 DEF TokensHeld
      <3> QED BY <1>5, <2>2, <2>3, <2>4, <3>1
    <2>5. CASE w = "discovery"
      <3>1. found[w][m].tokens = "ids" => row[m].tokens = "ids"
        BY <1>1, <1>5, <2>5 DEF TokensHeld
      <3> QED BY <1>5, <2>2, <2>3, <2>5, <3>1
    <2> QED BY <2>4, <2>5, WorkerNames
  <1> QED BY <1>3, <1>4, <1>5

(* The first upsert of discovery adds rows with the ids it has found. *)
LEMMA InsertTokens ==
  ASSUME TokenInv, Upsert("discovery") \/ MergeUpsert("discovery"),
         NEW m \in Stored' \ Stored
  PROVE  m \in DOMAIN found["discovery"] /\ row'[m].tokens = found["discovery"][m].tokens
  <1>1. MarketTypeOK /\ "discovery" \in Workers
    BY WorkerNames DEF TokenInv, HeldInv
  <1>2. found["discovery"] \in Partial(Row) /\ UpsertMarketsBatch("discovery")
    BY <1>1, UpsertFacts
  <1>3. /\ m \in DOMAIN found["discovery"]
        /\ row'[m] = Upserted(m, found["discovery"][m])
    BY <1>1, <1>2, CommitFacts
  <1>4. found["discovery"][m] \in Row
    BY <1>2, <1>3, PartialFacts
  <1> QED BY <1>1, <1>3, <1>4, UpsertedFacts

LEMMA TokensUpsert ==
  ASSUME TokenInv, NEW w \in Workers, Upsert(w) \/ MergeUpsert(w)
  PROVE  TokensHeld'
  <1>1. MarketTypeOK /\ Held /\ TokensHeld
    BY DEF TokenInv, HeldInv
  <1>2. /\ todo' = todo /\ worker[w] \in {"upsert", "merge"}
        /\ found'[w] = found[w] \/ found'[w] = <<>>
        /\ \A v \in Workers \ {w} : found'[v] = found[v]
    BY <1>1, UpsertFacts DEF MarketTypeOK
  <1>3. DOMAIN <<>> = {}
    OBVIOUS
  <1>4. \A v \in Workers : \A m \in DOMAIN found'[v] :
          m \in DOMAIN found[v] /\ found'[v][m] = found[v][m]
    BY <1>2, <1>3
  <1>5. ASSUME w = "refresh" PROVE TokensHeld'
    <2>1. Stored' = Stored
      <3>1. DOMAIN found[w] \subseteq Stored
        BY <1>1, <1>5 DEF Held
      <3>2. Stored \subseteq Stored' /\ Stored' \subseteq Stored \cup DOMAIN found[w]
        BY <1>1, UpsertFacts, CommitFacts
      <3> QED BY <3>1, <3>2
    <2>2. todo["refresh"] = <<>>
      BY <1>1, <1>2, <1>5 DEF Held
    <2>3. \A m \in Stored' \cap DOMAIN found'["discovery"] :
            found'["discovery"][m].tokens = "ids" => row'[m].tokens = "ids"
      BY <1>1, <1>4, <1>5, <2>1, CommitTokens, WorkerNames DEF TokensHeld
    <2>4. ASSUME NEW m \in DOMAIN found'["refresh"], row'[m].tokens = "ids"
          PROVE  found'["refresh"][m].tokens # "blank"
      <3>1. m \in DOMAIN found["refresh"] /\ found'["refresh"][m] = found["refresh"][m]
        BY <1>4, <2>4, WorkerNames
      <3>2. m \in Stored
        BY <1>1, <3>1 DEF Held
      <3>3. row[m].tokens = "ids" \/ found["refresh"][m].tokens = "ids"
        BY <1>5, <2>4, <3>2, CommitTokens
      <3> QED BY <1>1, <3>1, <3>3 DEF TokensHeld
    <2> QED BY <1>2, <1>3, <2>2, <2>3, <2>4 DEF TokensHeld
  <1>6. ASSUME w = "discovery" PROVE TokensHeld'
    <2>1. \A m \in Stored : m \in Stored' /\ (row'[m].tokens = "ids" => row[m].tokens = "ids")
      BY <1>6, CommitTokens
    <2>2. DOMAIN todo["refresh"] \cup DOMAIN found["refresh"] \subseteq Stored
      BY <1>1 DEF Held
    <2>3. ASSUME NEW m \in Stored' \cap DOMAIN found'["discovery"],
                 found'["discovery"][m].tokens = "ids"
          PROVE  row'[m].tokens = "ids"
      <3>1. m \in DOMAIN found["discovery"] /\ found["discovery"][m].tokens = "ids"
        BY <1>4, <2>3, WorkerNames
      <3>2. CASE m \in Stored
        <4>1. row[m].tokens = "ids"
          BY <1>1, <3>1, <3>2 DEF TokensHeld
        <4>2. found["discovery"][m] \in Row /\ "discovery" \in Workers
          BY <1>1, <3>1, PartialFacts, WorkerNames DEF MarketTypeOK
        <4>3. row'[m] = row[m] \/ row'[m] = Upserted(m, found["discovery"][m])
          BY <1>1, <1>6, <3>2, <2>1, UpsertFacts, CommitFacts
        <4> QED BY <1>1, <3>1, <4>1, <4>2, <4>3, UpsertedFacts
      <3>3. CASE m \notin Stored
        BY <1>6, <2>3, <3>1, <3>3, InsertTokens
      <3> QED BY <3>2, <3>3
    <2>4. \A m \in DOMAIN found'["refresh"] :
            row'[m].tokens = "ids" => found'["refresh"][m].tokens # "blank"
      BY <1>1, <1>4, <2>1, <2>2, WorkerNames DEF TokensHeld
    <2>5. \A m \in DOMAIN todo'["refresh"] :
            row'[m].tokens = "ids" => todo'["refresh"][m] # "blank"
      BY <1>1, <1>2, <2>1, <2>2 DEF TokensHeld
    <2> QED BY <2>3, <2>4, <2>5 DEF TokensHeld
  <1> QED BY <1>5, <1>6, WorkerNames

LEMMA TokensStart ==
  ASSUME TokenInv, DiscoveryStart \/ RefreshStart
  PROVE  TokensHeld'
  <1>1. MarketTypeOK /\ TokensHeld
    BY DEF TokenInv, HeldInv
  <1>2. PICK w \in Workers, e \in Partial(TokenField) :
           /\ todo' = [todo EXCEPT ![w] = e]
           /\ UNCHANGED <<row, found>>
           /\ w = "refresh" => /\ DOMAIN e \subseteq Stored
                              /\ \A m \in DOMAIN e : e[m] = row[m].tokens
    BY <1>1, StartFacts
  <1>3. /\ w = "refresh" => todo'["refresh"] = e
        /\ w = "discovery" => todo'["refresh"] = todo["refresh"]
    BY <1>1, <1>2, WorkerNames DEF MarketTypeOK
  <1>4. \A m \in DOMAIN todo'["refresh"] :
          row'[m].tokens = "ids" => todo'["refresh"][m] # "blank"
    BY <1>1, <1>2, <1>3, WorkerNames DEF TokensHeld
  <1> QED BY <1>1, <1>2, <1>4 DEF TokensHeld, Stored

LEMMA TokensFetch ==
  ASSUME TokenInv, NEW w \in Workers,
         FetchFound(w) \/ FetchNothing(w) \/ FetchesDone(w)
  PROVE  TokensHeld'
  <1>1. /\ MarketTypeOK /\ Held /\ TokensHeld /\ worker[w] = "fetch"
        /\ row' = row /\ Stored' = Stored
    BY DEF TokenInv, HeldInv, FetchFound, FetchNothing, FetchesDone, Stored
  <1>2. CASE FetchFound(w)
    <2>1. PICK m \in DOMAIN todo[w], new \in Row :
           /\ Dequeue(w, m)
           /\ w = "refresh" /\ todo[w][m] # "blank" => new.tokens # "blank"
           /\ DOMAIN found'[w] = DOMAIN found[w] \cup {m}
           /\ \A r \in DOMAIN found'[w] : found'[w][r] = IF r = m THEN new ELSE found[w][r]
           /\ \A v \in Workers \ {w} : found'[v] = found[v]
      BY <1>1, <1>2, FetchFoundFacts
    <2>2. /\ DOMAIN todo'[w] \subseteq DOMAIN todo[w]
          /\ \A r \in DOMAIN todo'[w] : todo'[w][r] = todo[w][r]
          /\ \A v \in Workers \ {w} : todo'[v] = todo[v]
      BY <1>1, <2>1, DequeueFacts
    <2>3. CASE w = "discovery"
      <3>1. m \notin Stored
        BY <1>1, <2>3 DEF Held
      <3> QED BY <1>1, <2>1, <2>2, <2>3, <3>1, WorkerNames DEF TokensHeld
    <2>4. CASE w = "refresh"
      <3>1. row[m].tokens = "ids" => new.tokens # "blank"
        BY <1>1, <2>1, <2>4 DEF TokensHeld
      <3> QED BY <1>1, <2>1, <2>2, <2>4, <3>1, WorkerNames DEF TokensHeld
    <2> QED BY <2>3, <2>4, WorkerNames
  <1>3. CASE FetchNothing(w)
    <2>1. PICK m \in DOMAIN todo[w] : Dequeue(w, m) /\ found' = found
      BY <1>3 DEF FetchNothing
    <2>2. /\ DOMAIN todo'[w] \subseteq DOMAIN todo[w]
          /\ \A r \in DOMAIN todo'[w] : todo'[w][r] = todo[w][r]
          /\ \A v \in Workers \ {w} : todo'[v] = todo[v]
      BY <1>1, <2>1, DequeueFacts
    <2> QED BY <1>1, <2>1, <2>2, WorkerNames DEF TokensHeld
  <1>4. CASE FetchesDone(w)
    BY <1>1, <1>4 DEF FetchesDone, TokensHeld
  <1> QED BY <1>2, <1>3, <1>4

LEMMA TokensRest ==
  ASSUME TokenInv,
         \/ UNCHANGED vars \/ Age \/ Restart \/ (\E w \in Workers : BooksMerged(w))
         \/ (\E m \in Markets : Advance(m)) \/ \E m \in Delisted : Delist(m)
  PROVE  TokensHeld'
  <1>1. CASE Restart
    <2>1. /\ \A w \in Workers : todo'[w] = <<>> /\ found'[w] = <<>>
          /\ DOMAIN <<>> = {}
      BY <1>1 DEF Restart
    <2> QED BY <2>1, WorkerNames DEF TokensHeld
  <1>2. CASE UNCHANGED <<row, todo, found>>
    BY <1>2 DEF TokenInv, TokensHeld, Stored
  <1> QED BY <1>1, <1>2 DEF vars, workerVars, Age, Advance, Delist, BooksMerged

LEMMA TokensStep == TokenInv /\ [Next]_vars => TokenInv'
  <1> SUFFICES ASSUME TokenInv, [Next]_vars PROVE TokenInv'
    OBVIOUS
  <1>1. HeldInv'
    BY HeldStep DEF TokenInv
  <1>2. CASE \/ UNCHANGED vars \/ Age \/ Restart
             \/ (\E m \in Markets : Advance(m)) \/ \E m \in Delisted : Delist(m)
    BY <1>1, <1>2, TokensRest DEF TokenInv
  <1>3. CASE DiscoveryStart \/ RefreshStart
    BY <1>1, <1>3, TokensStart DEF TokenInv
  <1>4. ASSUME NEW w \in Workers, Cycle(w) PROVE TokenInv'
    BY <1>1, <1>4, TokensFetch, TokensUpsert, TokensRest DEF TokenInv, Cycle
  <1> QED BY <1>2, <1>3, <1>4 DEF Next

(* A step that changes a row is a commit of one of the workers; that of     *)
(* discovery replaces a stored row only at the end of its cycle.            *)
LEMMA RowStep ==
  ASSUME HeldInv, [Next]_vars, NEW m \in Stored, row'[m] # row[m]
  PROVE  \E w \in Workers :
           /\ Upsert(w) \/ MergeUpsert(w)
           /\ m \in DOMAIN found[w]
           /\ row'[m] = Upserted(m, found[w][m])
           /\ w = "discovery" => DiscoveryMerges(m)
  <1>1. MarketTypeOK /\ Held
    BY DEF HeldInv
  <1>2. \E w \in Workers : Upsert(w) \/ MergeUpsert(w)
    BY DEF Next, vars, Advance, Delist, Age, DiscoveryStart, RefreshStart, Cycle,
           FetchFound, FetchNothing, FetchesDone, BooksMerged, Restart
  <1>3. PICK w \in Workers : Upsert(w) \/ MergeUpsert(w)
    BY <1>2
  <1>4. m \in DOMAIN found[w] /\ row'[m] = Upserted(m, found[w][m])
    BY <1>1, <1>3, UpsertFacts, CommitFacts
  <1>5. ASSUME w = "discovery" PROVE DiscoveryMerges(m)
    <2>1. worker[w] # "upsert"
      BY <1>1, <1>4, <1>5 DEF Held
    <2>2. worker[w] = "merge" /\ worker'[w] = "idle"
      BY <1>1, <1>3, <2>1, UpsertFacts DEF MarketTypeOK
    <2> QED BY <1>4, <1>5, <2>2 DEF DiscoveryMerges
  <1> QED BY <1>3, <1>4, <1>5

(* Token ids that are stored are lost, if ever, to the second upsert of the *)
(* cycle that discovered the market: the refresh worker keeps them through  *)
(* every interleaving, empty answers of Gamma included.                     *)
THEOREM IdsKept == Spec => TokensKept
  <1>1. TokenInv /\ [Next]_vars =>
          [\A m \in Stored :
             row[m].tokens = "ids" /\ row'[m].tokens # "ids" => DiscoveryMerges(m)]_vars
    <2> SUFFICES ASSUME TokenInv, [Next]_vars, NEW m \in Stored,
                        row[m].tokens = "ids", row'[m].tokens # "ids"
                 PROVE  DiscoveryMerges(m)
      OBVIOUS
    <2>1. HeldInv /\ row'[m] # row[m]
      BY DEF TokenInv
    <2>2. PICK w \in Workers :
            /\ Upsert(w) \/ MergeUpsert(w)
            /\ w = "discovery" => DiscoveryMerges(m)
      BY <2>1, RowStep
    <2>3. w # "refresh"
      BY <2>2, CommitTokens
    <2> QED BY <2>2, <2>3, WorkerNames
  <1>2. Spec => [][Next]_vars /\ []TokenInv
    BY TokensInit, TokensStep, PTL DEF Spec
  <1> QED BY <1>1, <1>2, PTL DEF TokensKept

-----------------------------------------------------------------------------
(* Statuses. *)

StatusInv == HeldInv /\ StatusHeld

LEMMA RankType ==
  ASSUME NEW status \in Statuses
  PROVE  Rank(status) \in 0..3
  <1>1. \E i \in 0..3 : status = <<"upcoming", "funded", "active", "closed">>[i + 1]
    <2> DEFINE order == <<"upcoming", "funded", "active", "closed">>
    <2>1. /\ order[0 + 1] = "upcoming" /\ order[1 + 1] = "funded"
          /\ order[2 + 1] = "active" /\ order[3 + 1] = "closed"
      OBVIOUS
    <2>2. 0 \in 0..3 /\ 1 \in 0..3 /\ 2 \in 0..3 /\ 3 \in 0..3
      OBVIOUS
    <2> HIDE DEF order
    <2> QED BY <2>1, <2>2 DEF Statuses, order
  <1> QED BY <1>1 DEF Rank

(* Every status in the table, in an answer and of Gamma has a rank. *)
LEMMA StageFacts ==
  ASSUME MarketTypeOK
  PROVE  /\ \A m \in Markets : gamma[m] > 0 =>
               /\ gamma[m] \in DOMAIN Life
               /\ Rank(Status(Life[gamma[m]])) \in Int
         /\ \A m \in Stored : m \in Markets /\ Rank(row[m].status) \in Int
         /\ \A w \in Workers : \A m \in DOMAIN found[w] :
               m \in Markets /\ found[w][m] \in Row /\ Rank(found[w][m].status) \in Int
  <1>1. \A r \in Row : Rank(r.status) \in Int
    BY RankType DEF Row
  <1>2. ASSUME NEW m \in Markets, gamma[m] > 0
        PROVE  gamma[m] \in DOMAIN Life /\ Rank(Status(Life[gamma[m]])) \in Int
    <2>1. gamma[m] \in 1..Len(Life)
      BY <1>2, MarketRefreshAssumption DEF MarketTypeOK
    <2>2. gamma[m] \in DOMAIN Life /\ Life[gamma[m]] \in Flags
      BY <2>1, MarketRefreshAssumption
    <2> QED BY <2>2, StatusFacts, RankType
  <1>3. \A m \in Stored : m \in Markets /\ row[m] \in Row
    BY PartialFacts DEF MarketTypeOK, Stored
  <1>4. ASSUME NEW w \in Workers, NEW m \in DOMAIN found[w]
        PROVE  m \in Markets /\ found[w][m] \in Row
    <2>1. found[w] \in Partial(Row)
      BY DEF MarketTypeOK
    <2> QED BY <1>4, <2>1, PartialFacts
  <1> QED BY <1>1, <1>2, <1>3, <1>4

LEMMA StatusInit == Init => StatusInv
  <1>1. DOMAIN <<>> = {}
    OBVIOUS
  <1> QED BY <1>1, HeldInit, WorkerNames DEF Init, StatusInv, StatusHeld, Stored

(* What Gamma does leaves every status behind it. *)
LEMMA StatusGamma ==
  ASSUME GammaForward, StatusInv,
         (\E m \in Markets : Advance(m)) \/ \E m \in Delisted : Delist(m)
  PROVE  StatusHeld'
  <1>1. MarketTypeOK /\ StatusHeld /\ UNCHANGED <<row, found>> /\ Stored' = Stored
    BY DEF StatusInv, HeldInv, Advance, Delist, workerVars, Stored
  <1>2. ASSUME NEW m \in Markets, gamma[m] > 0
        PROVE  /\ gamma'[m] > 0
               /\ Rank(Status(Life[gamma[m]])) <= Rank(Status(Life[gamma'[m]]))
               /\ Rank(Status(Life[gamma'[m]])) \in Int
    <2>1. MarketTypeOK'
      BY <1>1, TypeGamma
    <2>2. gamma[m] \in Int /\ gamma'[m] \in Int /\ gamma[m] <= gamma'[m]
      <3>1. gamma[m] \in Int /\ gamma \in [Markets -> 0..Len(Life)] /\ Len(Life) \in Nat
        BY <1>1, MarketRefreshAssumption DEF MarketTypeOK
      <3>2. gamma' = gamma \/ \E r \in Markets : gamma' = [gamma EXCEPT ![r] = @ + 1]
        BY DEF Advance, Delist
      <3> QED BY <3>1, <3>2
    <2>3. gamma'[m] > 0
      BY <1>2, <2>2
    <2>4. gamma[m] \in DOMAIN Life
      BY <1>1, <1>2, StageFacts
    <2>5. gamma'[m] \in 1..Len(Life)
      BY <2>1, <2>3, MarketRefreshAssumption DEF MarketTypeOK
    <2>6. gamma'[m] \in DOMAIN Life /\ Life[gamma'[m]] \in Flags
      BY <2>5, MarketRefreshAssumption
    <2>7. Rank(Status(Life[gamma'[m]])) \in Int
      BY <2>6, StatusFacts, RankType
    <2> QED BY <2>2, <2>3, <2>4, <2>6, <2>7 DEF GammaForward
  <1>3. ASSUME NEW m \in Markets, NEW i \in Int, gamma[m] > 0,
               i <= Rank(Status(Life[gamma[m]]))
        PROVE  gamma'[m] > 0 /\ i <= Rank(Status(Life[gamma'[m]]))
    <2>1. Rank(Status(Life[gamma[m]])) \in Int
      BY <1>1, <1>3, StageFacts
    <2> QED BY <1>2, <1>3, <2>1
  <1>4. \A m \in Stored : Reached(gamma'[m], row[m].status)
    BY <1>1, <1>3, StageFacts DEF StatusHeld, Reached
  <1>5. \A w \in Workers : \A m \in DOMAIN found[w] : Reached(gamma'[m], found[w][m].status)
    BY <1>1, <1>3, StageFacts DEF StatusHeld, Reached
  <1> QED BY <1>1, <1>4, <1>5 DEF StatusHeld

LEMMA StatusFetch ==
  ASSUME StatusInv, NEW w \in Workers,
         FetchFound(w) \/ FetchNothing(w) \/ FetchesDone(w)
  PROVE  StatusHeld'
  <1>1. /\ MarketTypeOK /\ Held /\ StatusHeld /\ worker[w] = "fetch"
        /\ UNCHANGED <<gamma, row>> /\ Stored' = Stored
    BY DEF StatusInv, HeldInv, FetchFound, FetchNothing, FetchesDone, Stored
  <1>2. CASE FetchFound(w)
    <2>1. PICK m \in DOMAIN todo[w], new \in Row :
           /\ Answers(m)
           /\ new.status = Status(Life[gamma[m]])
           /\ DOMAIN found'[w] = DOMAIN found[w] \cup {m}
           /\ \A r \in DOMAIN found'[w] : found'[w][r] = IF r = m THEN new ELSE found[w][r]
           /\ \A v \in Workers \ {w} : found'[v] = found[v]
      BY <1>1, <1>2, FetchFoundFacts
    <2>2. m \in Markets /\ gamma[m] > 0 /\ Rank(new.status) \in Int
      <3>1. m \in Markets /\ gamma[m] > 0
        BY <1>1, <2>1, PartialFacts DEF MarketTypeOK, Answers
      <3> QED BY <1>1, <2>1, <3>1, StageFacts
    <2>3. Reached(gamma[m], new.status)
      BY <2>1, <2>2 DEF Reached
    <2>4. \A v \in Workers : \A r \in DOMAIN found'[v] : Reached(gamma[r], found'[v][r].status)
      BY <1>1, <2>1, <2>3 DEF StatusHeld
    <2>5. CASE w = "discovery"
      <3>1. m \notin DOMAIN found["refresh"]
        BY <1>1, <2>5 DEF Held
      <3> QED BY <1>1, <2>1, <2>4, <2>5, <3>1, WorkerNames DEF StatusHeld
    <2>6. CASE w = "refresh"
      <3>1. Rank(row[m].status) <= Rank(new.status)
        BY <1>1, <2>1, <2>6 DEF Held, StatusHeld, Reached
      <3>2. m \in DOMAIN found["discovery"] =>
              Rank(found["discovery"][m].status) <= Rank(new.status)
        BY <1>1, <2>1, WorkerNames DEF StatusHeld, Reached
      <3> QED BY <1>1, <2>1, <2>4, <2>6, <3>1, <3>2, WorkerNames DEF StatusHeld
    <2> QED BY <2>5, <2>6, WorkerNames
  <1>3. CASE FetchNothing(w) \/ FetchesDone(w)
    <2>1. found' = found
      BY <1>3 DEF FetchNothing, FetchesDone
    <2> QED BY <1>1, <2>1 DEF StatusHeld
  <1> QED BY <1>2, <1>3

LEMMA StatusUpsert ==
  ASSUME StatusInv, NEW w \in Workers, Upsert(w) \/ MergeUpsert(w)
  PROVE  StatusHeld'
  <1>1. MarketTypeOK /\ Held /\ StatusHeld /\ gamma' = gamma
    BY UpsertFacts DEF StatusInv, HeldInv
  <1>2. /\ found'[w] = found[w] \/ found'[w] = <<>>
        /\ \A v \in Workers \ {w} : found'[v] = found[v]
    BY <1>1, UpsertFacts DEF MarketTypeOK
  <1>3. DOMAIN <<>> = {}
    OBVIOUS
  <1>4. \A v \in Workers : \A m \in DOMAIN found'[v] :
          m \in DOMAIN found[v] /\ found'[v][m] = found[v][m]
    BY <1>2, <1>3
  <1>5. ASSUME NEW m \in Stored'
        PROVE  \/ m \in Stored /\ row'[m] = row[m]
               \/ m \in DOMAIN found[w] /\ row'[m].status = found[w][m].status
    <2>1. \/ m \in Stored /\ row'[m] = row[m]
          \/ m \in DOMAIN found[w] /\ row'[m] = Upserted(m, found[w][m])
      BY <1>1, <1>5, UpsertFacts, CommitFacts
    <2>2. m \in DOMAIN found[w] => Upserted(m, found[w][m]).status = found[w][m].status
      BY <1>1, StageFacts, UpsertedFacts
    <2> QED BY <2>1, <2>2
  <1>6. \A m \in Stored' : Reached(gamma'[m], row'[m].status)
    BY <1>1, <1>5 DEF StatusHeld
  <1>7. \A v \in Workers : \A m \in DOMAIN found'[v] : Reached(gamma'[m], found'[v][m].status)
    BY <1>1, <1>4 DEF StatusHeld
  <1>8. ASSUME NEW m \in DOMAIN found'["refresh"]
        PROVE  Rank(row'[m].status) <= Rank(found'["refresh"][m].status)
    <2>1. m \in DOMAIN found["refresh"] /\ found'["refresh"][m] = found["refresh"][m]
      BY <1>4, <1>8, WorkerNames
    <2>2. m \in Stored /\ m \in Stored'
      <3>1. m \in Stored
        BY <1>1, <2>1 DEF Held
      <3>2. Stored \subseteq Stored'
        BY <1>1, UpsertFacts, CommitFacts
      <3> QED BY <3>1, <3>2
    <2>3. CASE row'[m] = row[m]
      BY <1>1, <2>1, <2>3 DEF StatusHeld
    <2>4. CASE m \in DOMAIN found[w] /\ row'[m].status = found[w][m].status
      <3>1. CASE w = "refresh"
        BY <1>1, <2>1, <2>4, <3>1, StageFacts
      <3>2. CASE w = "discovery"
        BY <1>1, <2>1, <2>4, <3>2 DEF StatusHeld
      <3> QED BY <3>1, <3>2, WorkerNames
    <2> QED BY <1>5, <2>2, <2>3, <2>4
  <1>9. ASSUME NEW m \in DOMAIN found'["refresh"], m \in DOMAIN found'["discovery"]
        PROVE  Rank(found'["discovery"][m].status) <= Rank(found'["refresh"][m].status)
    BY <1>1, <1>4, <1>9, WorkerNames DEF StatusHeld
  <1> QED BY <1>6, <1>7, <1>8, <1>9 DEF StatusHeld

LEMMA StatusRest ==
  ASSUME StatusInv,
         \/ UNCHANGED vars \/ Age \/ Restart \/ DiscoveryStart \/ RefreshStart
         \/ \E w \in Workers : BooksMerged(w)
  PROVE  StatusHeld'
  <1>1. StatusHeld
    BY DEF StatusInv
  <1>2. CASE Restart
    <2>1. /\ \A w \in Workers : found'[w] = <<>>
          /\ DOMAIN <<>> = {} /\ UNCHANGED <<gamma, row>>
      BY <1>2 DEF Restart
    <2> QED BY <1>1, <2>1, WorkerNames DEF StatusHeld, Stored
  <1>3. CASE UNCHANGED <<gamma, row, found>>
    BY <1>1, <1>3 DEF StatusHeld, Stored
  <1> QED BY <1>2, <1>3 DEF vars, workerVars, Age, DiscoveryStart, RefreshStart, BooksMerged

LEMMA StatusStep == GammaForward /\ StatusInv /\ [Next]_vars => StatusInv'
  <1> SUFFICES ASSUME GammaForward, StatusInv, [Next]_vars PROVE StatusInv'
    OBVIOUS
  <1>1. HeldInv'
    BY HeldStep DEF StatusInv
  <1>2. CASE UNCHANGED vars \/ Age \/ Restart \/ DiscoveryStart \/ RefreshStart
    BY <1>1, <1>2, StatusRest DEF StatusInv
  <1>3. CASE (\E m \in Markets : Advance(m)) \/ \E m \in Delisted : Delist(m)
    BY <1>1, <1>3, StatusGamma DEF StatusInv
  <1>4. ASSUME NEW w \in Workers, Cycle(w) PROVE StatusInv'
    BY <1>1, <1>4, StatusFetch, StatusUpsert, StatusRest DEF StatusInv, Cycle
  <1> QED BY <1>2, <1>3, <1>4 DEF Next

(* As long as Gamma does not take a market back, the status of a row goes   *)
(* back only at the end of the cycle that discovered the market.  The       *)
(* commits of the refresh worker never turn a row back, however old the     *)
(* answers are and wherever the process is restarted.                       *)
THEOREM StatusForward == GammaForward => (Spec => OnlyDiscoveryTurnsBack)
  <1> SUFFICES ASSUME GammaForward PROVE Spec => OnlyDiscoveryTurnsBack
    OBVIOUS
  <1>1. StatusInv /\ [Next]_vars => StatusInv'
    BY StatusStep
  <1>2. StatusInv /\ [Next]_vars =>
          [\A m \in Stored :
             Rank(row'[m].status) < Rank(row[m].status) => DiscoveryMerges(m)]_vars
    <2> SUFFICES ASSUME StatusInv, [Next]_vars, NEW m \in Stored,
                        Rank(row'[m].status) < Rank(row[m].status)
                 PROVE  DiscoveryMerges(m)
      OBVIOUS
    <2>1. HeldInv /\ MarketTypeOK /\ StatusHeld
      BY DEF StatusInv, HeldInv
    <2>2. Rank(row[m].status) \in Int
      BY <2>1, StageFacts
    <2>3. row'[m] # row[m]
      BY <2>2
    <2>4. PICK w \in Workers :
            /\ m \in DOMAIN found[w] /\ row'[m] = Upserted(m, found[w][m])
            /\ w = "discovery" => DiscoveryMerges(m)
      BY <2>1, <2>3, RowStep
    <2>5. w # "refresh"
      <3> SUFFICES ASSUME w = "refresh" PROVE FALSE
        OBVIOUS
      <3>1. /\ found[w][m] \in Row /\ Rank(found[w][m].status) \in Int
            /\ Rank(row[m].status) <= Rank(found[w][m].status)
        BY <2>1, <2>4, StageFacts DEF StatusHeld
      <3>2. row'[m].status = found[w][m].status
        BY <2>1, <2>4, <3>1, UpsertedFacts
      <3> QED BY <2>2, <3>1, <3>2
    <2> QED BY <2>4, <2>5, WorkerNames
  <1>3. Spec => [][Next]_vars /\ []StatusInv
    BY <1>1, StatusInit, PTL DEF Spec
  <1> QED BY <1>2, <1>3, PTL DEF OnlyDiscoveryTurnsBack
=============================================================================
