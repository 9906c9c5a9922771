---------------------------- MODULE WindowProofs ----------------------------
(***************************************************************************)
(* Proofs about PunctualDiscovery and TokenWindow: when Gamma and the      *)
(* database behave, each market is stored before its window starts, and    *)
(* the collector's list follows the windows.                               *)
(***************************************************************************)
EXTENDS TokenWindow, DiscoveryProofs

-----------------------------------------------------------------------------
(* What the configuration and Gamma must provide.  Gamma lists the next     *)
(* window, a cycle asks for it, and the table accepts it.  Of as many       *)
(* windows in a row as a cycle asks for, one has a start date: otherwise    *)
(* the anchor may lie so far back that a cycle at the very beginning of a   *)
(* window asks for windows up to the present one only.                      *)
Provided ==
    /\ Ahead >= 1 /\ InitialSlugCount >= 1 /\ FutureSlugCount >= 1
    /\ Rejected = {}
    /\ \A k \in Int : \E i \in 0..(FutureSlugCount - 1) : (k + i) * Dur \notin Undated

NextOne == Window + Dur

(* Every window so far is stored, and what is stored or was found in this   *)
(* cycle leaves no gap.                                                     *)
NoGap ==
    /\ Between(0, now + 1) \subseteq stored
    /\ \A s \in stored : 0 < s /\ Between(0, s) \subseteq stored
    /\ \A m \in markets : 0 < m /\ Between(0, m) \subseteq stored \cup markets

(* All windows before the one asked for next are there, unless one was not  *)
(* listed yet; then the next ones are not listed before the cycle ends.     *)
AsksInOrder ==
    worker = "fetch" /\ tasks # <<>> =>
        /\ 0 < Head(tasks)
        /\ \/ Between(0, Head(tasks)) \subseteq stored \cup markets
           \/ begun + (Ahead + 1) * Dur < Head(tasks)

(* A cycle lasts at most into the window after the one it began in. *)
CycleShort ==
    worker # "idle" =>
        \/ begun = Window
        \/ begun + Dur = Window /\ completed # Window

(* A cycle that is still in its window is about to store the next one, and  *)
(* one that was completed in its window has stored it.                      *)
NextProvided ==
    /\ worker # "idle" /\ begun = Window =>
           \/ NextOne \in stored
           \/ worker \in {"fetch", "upsert"} /\ NextOne \in markets
           \/ worker = "fetch" /\ \E i \in DOMAIN tasks : tasks[i] = NextOne
    /\ completed = Window => NextOne \in stored

PunctualInv ==
    /\ DiscoveryInv /\ PunctualTypeOK
    /\ NoGap /\ AsksInOrder /\ CycleShort /\ NextProvided

-----------------------------------------------------------------------------
(* Windows and the clock. *)

LEMMA Ordered ==
  ASSUME NEW d \in Nat \ {0}, NEW j \in Int, NEW k \in Int
  PROVE  j <= k <=> j * d <= k * d
  <1>1. CASE j <= k
    <2>1. k - j \in Nat
      BY <1>1
    <2>2. (k - j) * d >= 0 /\ (k - j) * d = k * d - j * d
      BY <2>1
    <2>3. j * d \in Int /\ k * d \in Int
      OBVIOUS
    <2> QED BY <1>1, <2>2, <2>3
  <1>2. CASE k < j
    <2>1. j - k - 1 \in Nat
      BY <1>2
    <2>2. (j - k - 1) * d >= 0 /\ (j - k - 1) * d = j * d - k * d - d
      BY <2>1
    <2>3. j * d \in Int /\ k * d \in Int
      OBVIOUS
    <2> QED BY <1>2, <2>2, <2>3
  <1> QED BY <1>1, <1>2

LEMMA Remainder ==
  ASSUME NEW d \in Nat \ {0}, NEW n \in Nat
  PROVE  n % d = n - (n \div d) * d
  OBVIOUS

LEMMA NowFacts ==
  ASSUME now \in Nat
  PROVE  /\ Window \in Nat /\ IsWindow(Window) /\ Window <= now /\ now < Window + Dur
         /\ IsWindow(NextOne) /\ NextOne \in Nat /\ Dur \in Nat \ {0}
  <1>1. /\ CurrentSlug(now, Dur) \in Nat
        /\ CurrentSlug(now, Dur) <= now /\ now < CurrentSlug(now, Dur) + Dur
    BY WindowFacts
  <1>2. Dur \in Nat \ {0} /\ now \div Dur \in Int
    BY DiscoveryAssumption
  <1>3. IsWindow(CurrentSlug(now, Dur))
    BY <1>2 DEF IsWindow, CurrentSlug
  <1>4. CurrentSlug(now, Dur) + 1 * Dur = CurrentSlug(now, Dur) + Dur
    BY <1>1, <1>2
  <1> HIDE DEF CurrentSlug
  <1>5. IsWindow(CurrentSlug(now, Dur) + 1 * Dur)
    BY <1>3, Later
  <1> QED BY <1>1, <1>2, <1>3, <1>4, <1>5 DEF Window, NextOne

(* A tick moves on to the next window, or stays in this one. *)
LEMMA TickFacts ==
  ASSUME now \in Nat, now' = now + 1
  PROVE  /\ (now + 1) % Dur = 0 => Window' = NextOne /\ now + 1 = NextOne
         /\ (now + 1) % Dur # 0 => Window' = Window /\ ~IsWindow(now + 1)
  <1> DEFINE n == now + 1
  <1>1. /\ n \in Nat /\ Dur \in Nat \ {0}
        /\ Window \in Nat /\ IsWindow(Window) /\ Window <= now /\ now < Window + Dur
    BY NowFacts
  <1>2. /\ n \div Dur \in Nat /\ (n \div Dur) * Dur <= n /\ n < (n \div Dur) * Dur + Dur
        /\ n % Dur = n - (n \div Dur) * Dur
    BY <1>1, Quotient, Remainder
  <1>3. Window' = (n \div Dur) * Dur
    BY DEF Window, CurrentSlug
  <1> DEFINE W == (n \div Dur) * Dur
  <1>4. IsWindow(W) /\ W \in Nat /\ W <= n /\ n < W + Dur /\ n % Dur = n - W
    <2>1. n \div Dur \in Int /\ W >= 0 => IsWindow(W)
      BY DEF IsWindow
    <2>2. W \in Nat
      <3>1. \A a, b \in Nat : a * b \in Nat
        OBVIOUS
      <3> QED BY <1>1, <1>2, <3>1
    <2> HIDE DEF n
    <2> QED BY <1>2, <2>1, <2>2
  <1> HIDE DEF W
  <1>5. Window <= W
    BY <1>1, <1>4, NextWindow
  <1>6. CASE n % Dur = 0
    <2>1. W = n
      BY <1>1, <1>4, <1>6
    <2>2. ~(W < Window + Dur)
      <3>1. W < Window + Dur => W <= Window
        BY <1>1, <1>4, NextWindow
      <3> QED BY <1>1, <2>1, <3>1
    <2>3. W = Window + Dur
      BY <1>1, <2>1, <2>2
    <2> QED BY <1>3, <1>6, <2>1, <2>3 DEF NextOne, W
  <1>7. CASE n % Dur # 0
    <2>1. W <= now
      BY <1>1, <1>4, <1>7
    <2>2. W <= Window
      BY <1>1, <1>4, <2>1, NextWindow
    <2>3. W = Window
      BY <1>1, <1>4, <1>5, <2>2
    <2>4. ~IsWindow(n)
      <3> SUFFICES ASSUME IsWindow(n) PROVE FALSE
        OBVIOUS
      <3>1. n <= W
        BY <1>1, <1>4, NextWindow
      <3>2. W \in Nat /\ n = now + 1
        BY <1>4
      <3> HIDE DEF n
      <3> QED BY <2>1, <3>1, <3>2
    <2> QED BY <1>3, <1>7, <2>3, <2>4 DEF W
  <1> QED BY <1>6, <1>7

-----------------------------------------------------------------------------
(* The punctual worker is the discovery worker. *)

LEMMA PunctualStep == [PunctualNext]_punctualVars => [Next]_vars
  <1>1. PunctualStore => Next \/ UNCHANGED vars
    <2>1. \A ok \in BOOLEAN : MergeUpsert(ok) => Next
      BY DEF Next
    <2>2. Upsert(TRUE) => Next
      BY DEF Next
    <2> QED BY <2>1, <2>2 DEF PunctualStore, Next
  <1>2. PunctualStart \/ PunctualFetch \/ PunctualRestart \/ PunctualTick => Next
    BY DEF PunctualStart, PunctualFetch, PunctualRestart, PunctualTick, Next
  <1> QED BY <1>1, <1>2 DEF PunctualNext, punctualVars

(* Every behaviour of PunctualDiscovery is one of Discovery. *)
THEOREM PunctualIsDiscovery == PunctualSpec => Spec
  <1>1. PunctualInit => Init
    BY DEF PunctualInit
  <1> QED BY <1>1, PunctualStep, PTL DEF PunctualSpec, Spec

LEMMA PunctualTypes ==
  ASSUME FutureSlugCount >= 0, DiscoveryInv, PunctualTypeOK,
         [PunctualNext]_punctualVars
  PROVE  DiscoveryInv' /\ PunctualTypeOK' /\ stored \subseteq stored'
  <1>1. DiscoveryInv' /\ TypeOK'
    BY PunctualStep, DiscoveryStep DEF DiscoveryInv
  <1>2. Window \in -1..MaxTime /\ begun \in -1..MaxTime /\ completed \in -1..MaxTime
    <2>1. now \in Nat /\ now <= MaxTime /\ MaxTime \in Nat
      BY DiscoveryAssumption DEF DiscoveryInv, TypeOK
    <2>2. Window \in Nat /\ Window <= now
      BY <2>1, NowFacts
    <2> QED BY <2>1, <2>2 DEF PunctualTypeOK
  <1>3. begun' \in {begun, Window, -1} /\ completed' \in {completed, begun}
    BY DEF PunctualNext, PunctualStart, PunctualFetch, PunctualStore, PunctualRestart,
           PunctualTick, punctualVars
  <1>4. -1 \in -1..MaxTime
    BY DiscoveryAssumption
  <1>5. stored \subseteq stored'
    BY DEF PunctualNext, PunctualStart, StartCycle, PunctualFetch, FetchFound, FetchMissing,
           PunctualStore, FetchesDone, Upsert, MergeUpsert, UpsertMarketsBatch,
           PunctualRestart, Restart, PunctualTick, Tick, punctualVars, vars
  <1> QED BY <1>1, <1>2, <1>3, <1>4, <1>5 DEF PunctualTypeOK

-----------------------------------------------------------------------------
(* The next window is stored in time. *)

LEMMA PunctualFacts ==
  ASSUME PunctualInv
  PROVE  /\ now \in Nat /\ now <= MaxTime /\ Dur \in Nat \ {0}
         /\ begun \in Int /\ completed \in Int /\ Ahead \in Nat
         /\ stored \subseteq Int /\ markets \subseteq Int /\ tasks \in Seq(Int)
         /\ \A s \in stored \cup markets : IsWindow(s)
  BY DiscoveryAssumption, AheadAssumption
     DEF PunctualInv, PunctualTypeOK, TypeOK, DiscoveryInv, SlugsListed

LEMMA PunctualInitHolds == PunctualInit => PunctualInv
  <1> SUFFICES ASSUME PunctualInit PROVE PunctualInv
    OBVIOUS
  <1>1. DiscoveryInv /\ TypeOK
    BY DiscoveryInit DEF PunctualInit, DiscoveryInv
  <1>2. PunctualTypeOK
    BY <1>1, DiscoveryAssumption DEF PunctualInit, PunctualTypeOK
  <1>3. now = 0 /\ Window \in Nat /\ completed = -1
    BY NowFacts DEF PunctualInit, Init
  <1>4. Between(0, now + 1) = {}
    BY <1>3 DEF Between
  <1>5. NoGap /\ AsksInOrder /\ CycleShort
    BY <1>4 DEF PunctualInit, Init, NoGap, AsksInOrder, CycleShort
  <1>6. NextProvided
    BY <1>3 DEF PunctualInit, Init, NextProvided
  <1> QED BY <1>1, <1>2, <1>5, <1>6 DEF PunctualInv

(* The slugs that follow the anchor reach the next window, unless it is     *)
(* stored: the anchor is not behind the last of the stored windows that     *)
(* have a start date.                                                       *)
LEMMA AnchorReaches ==
  ASSUME Provided, PunctualInv, FromAnchor
  PROVE  \/ NextOne \in stored
         \/ \E i \in 1..FutureSlugCount : LatestSlug + i * Dur = NextOne
  <1> DEFINE L == LatestSlug
             F == FutureSlugCount
  <1>1. /\ now \in Nat /\ Dur \in Nat \ {0} /\ F \in Int /\ F >= 1
        /\ stored \subseteq Int /\ \A s \in stored : IsWindow(s)
    BY PunctualFacts, DiscoveryAssumption DEF Provided
  <1>2. /\ Window \in Nat /\ IsWindow(Window) /\ Window <= now
        /\ IsWindow(NextOne) /\ NextOne \in Nat
    BY <1>1, NowFacts
  <1>3. L \in Dated /\ L \in stored /\ \A r \in Dated : r <= L
    BY AnchorFacts DEF PunctualInv, FromAnchor, Dated
  <1>4. L \in Int /\ 0 < L /\ Between(0, L) \subseteq stored
    BY <1>1, <1>3 DEF PunctualInv, NoGap
  <1>5. PICK j \in Int : L = j * Dur
    BY <1>1, <1>3 DEF IsWindow
  <1>6. PICK k \in Int : Window = k * Dur
    BY <1>2 DEF IsWindow
  <1>7. NextOne = (k + 1) * Dur
    BY <1>1, <1>6 DEF NextOne
  <1> HIDE DEF L
  <1>8. CASE NextOne <= L
    <2>1. NextOne = L \/ NextOne \in Between(0, L)
      <3>1. 0 < NextOne
        BY <1>1, <1>2 DEF NextOne
      <3> QED BY <1>2, <1>4, <1>8, <3>1 DEF Between
    <2> QED BY <1>3, <1>4, <2>1
  <1>9. CASE L < NextOne
    <2>1. j < k + 1
      <3>1. k + 1 <= j => (k + 1) * Dur <= j * Dur
        BY <1>1, Ordered
      <3> QED BY <1>2, <1>4, <1>5, <1>7, <1>9, <3>1
    <2>2. PICK i \in 0..(F - 1) : ((k - (F - 1)) + i) * Dur \notin Undated
      <3>1. k - (F - 1) \in Int
        BY <1>1
      <3> QED BY <3>1 DEF Provided
    <2> DEFINE q == (k - (F - 1)) + i
    <2>3. q \in Int /\ k - (F - 1) <= q /\ q <= k
      BY <1>1
    <2>4. q * Dur \in Int /\ q * Dur <= Window /\ IsWindow(q * Dur) /\ q * Dur \notin Undated
      <3>1. q * Dur <= k * Dur
        BY <1>1, <2>3, Ordered
      <3>2. IsWindow(q * Dur)
        BY <2>3 DEF IsWindow
      <3>3. q * Dur \in Int
        <4>1. \A a, b \in Int : a * b \in Int
          OBVIOUS
        <4> QED BY <1>1, <2>3, <4>1
      <3>4. q * Dur \notin Undated
        BY <2>2
      <3> HIDE DEF q
      <3> QED BY <1>6, <3>1, <3>2, <3>3, <3>4
    <2> HIDE DEF q
    <2>5. q * Dur <= L
      <3>1. CASE q * Dur <= 0
        BY <1>4, <2>4, <3>1
      <3>2. CASE 0 < q * Dur
        <4>1. q * Dur \in Between(0, now + 1)
          BY <1>1, <1>2, <2>4, <3>2 DEF Between
        <4>2. q * Dur \in Dated
          BY <2>4, <4>1 DEF PunctualInv, NoGap, Dated
        <4> QED BY <1>3, <4>2
      <3> QED BY <2>4, <3>1, <3>2
    <2>6. q <= j
      BY <1>1, <1>5, <2>3, <2>5, Ordered
    <2>7. k + 1 - j \in 1..F
      BY <1>1, <2>1, <2>3, <2>6
    <2>8. L + (k + 1 - j) * Dur = NextOne
      BY <1>1, <1>5, <1>7
    <2> QED BY <2>7, <2>8 DEF L
  <1> QED BY <1>2, <1>4, <1>8, <1>9

(* What does not depend on the clock is judged as before. *)
LEMMA SameTime ==
  ASSUME now' = now
  PROVE  Window' = Window /\ NextOne' = NextOne
  BY DEF Window, NextOne, CurrentSlug

LEMMA StartInTime ==
  ASSUME Provided, PunctualInv, PunctualStart
  PROVE  NoGap' /\ AsksInOrder' /\ CycleShort' /\ NextProvided'
  <1>1. /\ now \in Nat /\ Dur \in Nat \ {0}
        /\ stored \subseteq Int /\ \A s \in stored : IsWindow(s)
    BY PunctualFacts
  <1>2. /\ Window \in Nat /\ IsWindow(Window) /\ Window <= now
        /\ NextOne = Window + Dur
    BY <1>1, NowFacts DEF NextOne
  <1>3. Window' = Window /\ NextOne' = NextOne
    BY SameTime DEF PunctualStart, StartCycle
  <1>4. /\ worker' = "fetch" /\ begun' = Window
        /\ UNCHANGED <<now, stored, markets, completed>>
        /\ IF FromAnchor THEN tasks' = NextSlugs ELSE tasks' = InitialSlugs
    BY DEF PunctualStart, StartCycle
  <1>5. NoGap'
    BY <1>4 DEF PunctualInv, NoGap, Between
  <1>6. CycleShort'
    BY <1>3, <1>4 DEF CycleShort
  <1> DEFINE Follows(s, n) ==
               /\ IsWindow(s) /\ s \in Int /\ 0 <= s /\ n \in Int
               /\ tasks' = [i \in 1..n |-> s + i * Dur]
               /\ \A w \in Between(0, s + Dur) : w \in stored
  <1>7. ASSUME NEW s, NEW n, Follows(s, n)
        PROVE  AsksInOrder'
    <2>1. tasks' \in Seq(Int) /\ tasks' # <<>> => Head(tasks') = s + Dur
      <3>1. tasks' \in Seq(Int) /\ (tasks' # <<>> => tasks'[1] = s + Dur)
        BY <1>7, SlugsFacts
      <3> QED BY <3>1, HeadTailProperties
    <2>2. tasks' \in Seq(Int)
      BY <1>7, SlugsFacts
    <2>3. 0 < s + Dur
      BY <1>1, <1>7
    <2> QED BY <1>4, <1>7, <2>1, <2>2, <2>3 DEF AsksInOrder
  <1>8. CASE FromAnchor
    <2> DEFINE L == LatestSlug
    <2>1. L \in stored
      BY <1>8, AnchorFacts DEF PunctualInv, FromAnchor, Dated
    <2>2. IsWindow(L) /\ L \in Int /\ 0 < L /\ Between(0, L) \subseteq stored
      BY <1>1, <2>1 DEF PunctualInv, NoGap
    <2>3. tasks' = [i \in 1..FutureSlugCount |-> L + i * Dur] /\ FutureSlugCount \in Int
      BY <1>4, <1>8, DiscoveryAssumption DEF NextSlugs, GenerateNextSlugs
    <2>4. \A w \in Between(0, L + Dur) : w \in stored
      <3> SUFFICES ASSUME NEW w \in Int, IsWindow(w), 0 < w, w < L + Dur
                   PROVE  w \in stored
        BY DEF Between
      <3> HIDE DEF L
      <3>1. w <= L
        BY <2>2, NextWindow
      <3>2. w = L \/ w \in Between(0, L)
        BY <2>2, <3>1 DEF Between
      <3> QED BY <2>1, <2>2, <3>2
    <2>5. Follows(L, FutureSlugCount)
      BY <2>2, <2>3, <2>4
    <2>6. AsksInOrder'
      <3> HIDE DEF Follows
      <3> QED BY <1>7, <2>5
    <2>7. \/ NextOne \in stored
          \/ \E i \in DOMAIN tasks' : tasks'[i] = NextOne
      BY <1>8, <2>3, AnchorReaches
    <2>8. NextProvided'
      BY <1>3, <1>4, <2>7 DEF PunctualInv, NextProvided
    <2> QED BY <1>5, <1>6, <2>6, <2>8
  <1>9. CASE ~FromAnchor
    <2>1. tasks' = [i \in 1..InitialSlugCount |-> Window + i * Dur] /\ InitialSlugCount \in Int
      BY <1>4, <1>9, DiscoveryAssumption DEF InitialSlugs, GenerateInitialSlugs, Window
    <2>2. \A w \in Between(0, Window + Dur) : w \in stored
      <3> SUFFICES ASSUME NEW w \in Int, IsWindow(w), 0 < w, w < Window + Dur
                   PROVE  w \in stored
        BY DEF Between
      <3>1. w <= Window
        BY <1>2, NextWindow
      <3>2. w \in Between(0, now + 1)
        BY <1>1, <1>2, <3>1 DEF Between
      <3> QED BY <3>2 DEF PunctualInv, NoGap
    <2>3. Follows(Window, InitialSlugCount)
      BY <1>2, <2>1, <2>2
    <2>4. AsksInOrder'
      <3> HIDE DEF Follows
      <3> QED BY <1>7, <2>3
    <2>5. 1 \in DOMAIN tasks' /\ tasks'[1] = NextOne
      <3>1. Window + 1 * Dur = Window + Dur
        BY <1>1
      <3>2. 1 \in 1..InitialSlugCount
        BY <2>1 DEF Provided
      <3> QED BY <1>2, <2>1, <3>1, <3>2
    <2>6. NextProvided'
      BY <1>3, <1>4, <2>5 DEF PunctualInv, NextProvided
    <2> QED BY <1>5, <1>6, <2>4, <2>6
  <1> QED BY <1>8, <1>9

LEMMA FetchInTime ==
  ASSUME Provided, PunctualInv, PunctualFetch
  PROVE  NoGap' /\ AsksInOrder' /\ CycleShort' /\ NextProvided'
  <1> DEFINE h == Head(tasks)
  <1>1. /\ now \in Nat /\ Dur \in Nat \ {0} /\ Ahead \in Nat /\ Ahead >= 1
        /\ begun \in Int /\ tasks \in Seq(Int)
    BY PunctualFacts DEF Provided
  <1>2. /\ Window \in Nat /\ IsWindow(Window) /\ NextOne = Window + Dur
    BY <1>1, NowFacts DEF NextOne
  <1>3. /\ worker = "fetch" /\ worker' = "fetch" /\ tasks # <<>> /\ tasks' = Tail(tasks)
        /\ UNCHANGED <<now, stored, begun, completed>>
        /\ \/ h <= Window + Ahead * Dur /\ markets' = markets \cup {h}
           \/ ~(h <= Window + Ahead * Dur) /\ markets' = markets
    BY DEF PunctualFetch, FetchFound, FetchMissing, Listed
  <1>4. Window' = Window /\ NextOne' = NextOne
    BY <1>3, SameTime
  <1>5. /\ h = tasks[1] /\ h \in Int /\ IsWindow(h)
        /\ tasks' \in Seq(Int) /\ (tasks' # <<>> => Head(tasks') = h + Dur)
    <2>1. Consecutive(tasks) /\ \A i \in DOMAIN tasks : IsWindow(tasks[i])
      BY <1>3 DEF PunctualInv, DiscoveryInv, TasksAhead
    <2> QED BY <1>1, <1>3, <2>1, TailFacts
  <1>6. \A i \in DOMAIN tasks :
            i = 1 \/ (i - 1 \in DOMAIN tasks' /\ tasks'[i - 1] = tasks[i])
    <2>1. /\ Len(tasks) \in Nat \ {0} /\ DOMAIN tasks = 1..Len(tasks)
          /\ Len(Tail(tasks)) = Len(tasks) - 1
          /\ \A i \in 1..(Len(tasks) - 1) : Tail(tasks)[i] = tasks[i + 1]
      BY <1>1, <1>3, LenProperties, EmptySeq, HeadTailProperties
    <2>2. DOMAIN Tail(tasks) = 1..(Len(tasks) - 1)
      BY <1>1, <1>3, <2>1, HeadTailProperties, LenProperties
    <2> SUFFICES ASSUME NEW i \in 1..Len(tasks), i # 1
                 PROVE  i - 1 \in DOMAIN tasks' /\ tasks'[i - 1] = tasks[i]
      BY <2>1
    <2>3. i - 1 \in 1..(Len(tasks) - 1) /\ (i - 1) + 1 = i
      BY <2>1
    <2> QED BY <1>3, <2>1, <2>2, <2>3
  <1>7. /\ 0 < h
        /\ \/ Between(0, h) \subseteq stored \cup markets
           \/ begun + (Ahead + 1) * Dur < h
    BY <1>3 DEF PunctualInv, AsksInOrder
  <1>8. begun = Window \/ begun + Dur = Window
    BY <1>3 DEF PunctualInv, CycleShort
  <1>9. Ahead * Dur \in Nat /\ Ahead * Dur >= Dur /\ (Ahead + 1) * Dur = Ahead * Dur + Dur
    <2>1. Ahead - 1 \in Nat /\ (Ahead - 1) * Dur >= 0 /\ (Ahead - 1) * Dur = Ahead * Dur - Dur
      BY <1>1
    <2>2. (Ahead + 1) * Dur = Ahead * Dur + Dur
      BY <1>1
    <2> QED BY <1>1, <2>1, <2>2
  <1> DEFINE A == Ahead * Dur
  <1> HIDE DEF A, h
  <1>10. CycleShort'
    BY <1>3, <1>4 DEF PunctualInv, CycleShort
  <1>11. CASE h <= Window + A /\ markets' = markets \cup {h}
    <2>1. Between(0, h) \subseteq stored \cup markets
      BY <1>1, <1>2, <1>5, <1>7, <1>8, <1>9, <1>11 DEF A
    <2>2. Between(0, h + Dur) \subseteq stored \cup markets'
      <3> SUFFICES ASSUME NEW w \in Int, IsWindow(w), 0 < w, w < h + Dur
                   PROVE  w \in stored \cup markets'
        BY DEF Between
      <3>1. w <= h
        BY <1>5, NextWindow
      <3>2. w = h \/ w \in Between(0, h)
        BY <1>5, <3>1 DEF Between
      <3> QED BY <1>11, <2>1, <3>2
    <2>3. NoGap'
      <3>1. \A m \in markets' : 0 < m /\ Between(0, m) \subseteq stored \cup markets'
        BY <1>7, <1>11, <2>1 DEF PunctualInv, NoGap
      <3>2. Between(0, now + 1) \subseteq stored
            /\ \A s \in stored : 0 < s /\ Between(0, s) \subseteq stored
        BY DEF PunctualInv, NoGap
      <3> QED BY <1>3, <3>1, <3>2 DEF NoGap, Between
    <2>4. AsksInOrder'
      <3>1. 0 < h + Dur
        BY <1>1, <1>5, <1>7
      <3> QED BY <1>3, <1>5, <2>2, <3>1 DEF AsksInOrder, Between
    <2>5. NextProvided'
      <3>1. ASSUME begun = Window
            PROVE  \/ NextOne \in stored
                   \/ NextOne \in markets'
                   \/ \E i \in DOMAIN tasks' : tasks'[i] = NextOne
        <4>1. CASE \E i \in DOMAIN tasks : tasks[i] = NextOne
          BY <1>5, <1>6, <1>11, <4>1
        <4> QED BY <1>3, <1>11, <3>1, <4>1 DEF PunctualInv, NextProvided
      <3> QED BY <1>3, <1>4, <3>1 DEF PunctualInv, NextProvided
    <2> QED BY <1>10, <2>3, <2>4, <2>5
  <1>12. CASE ~(h <= Window + A) /\ markets' = markets
    <2>1. Window + A + Dur <= h
      <3>1. IsWindow(Window + Ahead * Dur) /\ Window + Ahead * Dur \in Int
        BY <1>1, <1>2, Later
      <3>2. h < (Window + A) + Dur => h <= Window + A
        BY <1>5, <3>1, NextWindow DEF A
      <3> QED BY <1>1, <1>2, <1>5, <1>9, <1>12, <3>2 DEF A
    <2>2. begun + (Ahead + 1) * Dur < h + Dur /\ 0 < h + Dur
      BY <1>1, <1>2, <1>5, <1>7, <1>8, <1>9, <2>1 DEF A
    <2>3. NoGap'
      BY <1>3, <1>12 DEF PunctualInv, NoGap, Between
    <2>4. AsksInOrder'
      BY <1>3, <1>5, <2>2 DEF AsksInOrder
    <2>5. h # NextOne
      BY <1>1, <1>2, <1>5, <1>9, <2>1 DEF A
    <2>6. NextProvided'
      <3>1. ASSUME begun = Window
            PROVE  \/ NextOne \in stored
                   \/ NextOne \in markets
                   \/ \E i \in DOMAIN tasks' : tasks'[i] = NextOne
        <4>1. CASE \E i \in DOMAIN tasks : tasks[i] = NextOne
          BY <1>5, <1>6, <2>5, <4>1
        <4> QED BY <1>3, <3>1, <4>1 DEF PunctualInv, NextProvided
      <3> QED BY <1>3, <1>4, <1>12, <3>1 DEF PunctualInv, NextProvided
    <2> QED BY <1>10, <2>3, <2>4, <2>6
  <1> QED BY <1>3, <1>11, <1>12 DEF A

(* The cycle passes a stage, ends or is cut off. *)
LEMMA StoreInTime ==
  ASSUME Provided, PunctualInv, PunctualStore \/ PunctualRestart
  PROVE  NoGap' /\ AsksInOrder' /\ CycleShort' /\ NextProvided'
  <1>1. /\ stored' = stored \/ stored' = stored \cup markets
        /\ markets' = markets \/ markets' = {}
        /\ worker' \in {"idle", "upsert", "merge"}
        /\ now' = now
    BY DEF PunctualStore, PunctualRestart, FetchesDone, Upsert, MergeUpsert, Restart,
           UpsertMarketsBatch, EndCycle
  <1>2. Window' = Window /\ NextOne' = NextOne
    BY <1>1, SameTime
  <1>3. AsksInOrder'
    BY <1>1 DEF AsksInOrder
  <1>4. NoGap'
    <2>1. Between(0, now' + 1) \subseteq stored'
      BY <1>1 DEF PunctualInv, NoGap
    <2>2. \A s \in stored' : 0 < s /\ Between(0, s) \subseteq stored'
      BY <1>1 DEF PunctualInv, NoGap
    <2>3. \A m \in markets' : 0 < m /\ Between(0, m) \subseteq stored' \cup markets'
      BY <1>1 DEF PunctualInv, NoGap
    <2> QED BY <2>1, <2>2, <2>3 DEF NoGap, Between
  <1>5. CASE PunctualRestart
    BY <1>1, <1>2, <1>3, <1>4, <1>5
       DEF PunctualRestart, Restart, PunctualInv, CycleShort, NextProvided
  <1>6. CASE PunctualStore
    <2>1. /\ worker # "idle"
          /\ worker' = "idle" => begun' = -1
                                 /\ completed' = IF begun = Window THEN begun ELSE completed
          /\ worker' # "idle" => UNCHANGED <<begun, completed, markets>>
      <3>1. worker # "idle"
        BY <1>6 DEF PunctualStore, FetchesDone, Upsert, MergeUpsert
      <3>2. worker' # "idle" => UNCHANGED markets
        BY <1>6 DEF PunctualStore, FetchesDone, Upsert, MergeUpsert, EndCycle
      <3> QED BY <1>6, <3>1, <3>2 DEF PunctualStore, Ends
    <2>2. CycleShort'
      BY <1>2, <2>1 DEF PunctualInv, CycleShort
    (* The next window, once found, gets stored. *)
    <2>3. ASSUME begun = Window
          PROVE  \/ NextOne \in stored'
                 \/ worker' = "upsert" /\ NextOne \in markets'
      <3>1. CASE FetchesDone
        <4>1. /\ worker = "fetch" /\ DOMAIN tasks = {} /\ stored' = stored
              /\ markets # {} => worker' = "upsert" /\ markets' = markets
          BY <3>1 DEF FetchesDone
        <4> QED BY <2>1, <2>3, <4>1 DEF PunctualInv, NextProvided
      <3>2. CASE Upsert(TRUE)
        <4>1. worker = "upsert" /\ stored' = stored \cup markets
          BY <3>2 DEF Upsert, UpsertMarketsBatch, Provided
        <4> QED BY <2>3, <4>1 DEF PunctualInv, NextProvided
      <3>3. CASE \E ok \in BOOLEAN : MergeUpsert(ok)
        <4>1. worker = "merge"
          BY <3>3 DEF MergeUpsert
        <4> QED BY <1>1, <2>3, <4>1 DEF PunctualInv, NextProvided
      <3> QED BY <1>6, <3>1, <3>2, <3>3 DEF PunctualStore
    <2>4. begun \in Int /\ completed = Window => NextOne \in stored'
      BY <1>1 DEF PunctualInv, NextProvided
    <2>5. NextProvided'
      <3>1. CASE worker' = "idle"
        <4>1. completed' = Window => NextOne \in stored'
          <5>1. CASE begun = Window
            BY <2>3, <3>1, <5>1
          <5>2. CASE begun # Window
            BY <1>1, <2>1, <3>1, <5>2 DEF PunctualInv, NextProvided
          <5> QED BY <5>1, <5>2
        <4> QED BY <1>2, <3>1, <4>1 DEF NextProvided
      <3>2. CASE worker' # "idle"
        <4>1. completed = Window => NextOne \in stored'
          BY <1>1 DEF PunctualInv, NextProvided
        <4> QED BY <1>2, <2>1, <2>3, <3>2, <4>1 DEF NextProvided
      <3> QED BY <3>1, <3>2
    <2> QED BY <1>3, <1>4, <2>2, <2>5
  <1> QED BY <1>5, <1>6

LEMMA TickInTime ==
  ASSUME Provided, PunctualInv, PunctualTick
  PROVE  NoGap' /\ AsksInOrder' /\ CycleShort' /\ NextProvided'
  <1>1. /\ now \in Nat /\ Dur \in Nat \ {0} /\ begun \in Int /\ completed \in Int
    BY PunctualFacts
  <1>2. /\ now' = now + 1
        /\ UNCHANGED <<worker, tasks, markets, stored, begun, completed>>
        /\ (now + 1) % Dur = 0 => completed = Window
    BY DEF PunctualTick, Tick
  <1>3. Window \in Nat /\ NextOne = Window + Dur /\ Window < NextOne
    BY <1>1, NowFacts DEF NextOne
  <1>4. /\ (now + 1) % Dur = 0 => Window' = NextOne /\ now + 1 = NextOne
        /\ (now + 1) % Dur # 0 => Window' = Window /\ ~IsWindow(now + 1)
    BY <1>1, <1>2, TickFacts
  <1>5. completed = Window => NextOne \in stored
    BY DEF PunctualInv, NextProvided
  <1>6. AsksInOrder'
    BY <1>2 DEF PunctualInv, AsksInOrder, Between
  <1>7. Between(0, now + 2) \subseteq stored
    <2> SUFFICES ASSUME NEW w \in Int, IsWindow(w), 0 < w, w < now + 2
                 PROVE  w \in stored
      BY DEF Between
    <2>1. CASE w = now + 1
      BY <1>2, <1>4, <1>5, <2>1
    <2>2. CASE w # now + 1
      <3>1. w \in Between(0, now + 1)
        BY <1>1, <2>2 DEF Between
      <3> QED BY <3>1 DEF PunctualInv, NoGap
    <2> QED BY <2>1, <2>2
  <1>8. NoGap'
    <2>1. now' + 1 = now + 2
      BY <1>1, <1>2
    <2>2. Between(0, now' + 1) \subseteq stored
      BY <1>7, <2>1
    <2> QED BY <1>2, <2>2 DEF PunctualInv, NoGap, Between
  <1>9. CASE (now + 1) % Dur = 0
    <2>1. Window' = Window + Dur /\ completed = Window /\ completed # Window'
      BY <1>1, <1>2, <1>3, <1>4, <1>9
    <2>2. worker # "idle" => begun = Window
      BY <2>1 DEF PunctualInv, CycleShort
    <2>3. CycleShort'
      BY <1>2, <2>1, <2>2 DEF CycleShort
    <2>4. NextProvided'
      BY <1>2, <2>1, <2>2 DEF NextProvided
    <2> QED BY <1>6, <1>8, <2>3, <2>4
  <1>10. CASE (now + 1) % Dur # 0
    <2>1. Window' = Window /\ NextOne' = NextOne
      BY <1>4, <1>10 DEF NextOne
    <2>2. CycleShort'
      BY <1>2, <2>1 DEF PunctualInv, CycleShort
    <2>3. NextProvided'
      BY <1>2, <2>1 DEF PunctualInv, NextProvided
    <2> QED BY <1>6, <1>8, <2>2, <2>3
  <1> QED BY <1>9, <1>10

LEMMA PunctualInvKept ==
  Provided /\ PunctualInv /\ [PunctualNext]_punctualVars => PunctualInv'
  <1> SUFFICES ASSUME Provided, PunctualInv, [PunctualNext]_punctualVars
               PROVE  PunctualInv'
    OBVIOUS
  <1>1. DiscoveryInv' /\ PunctualTypeOK'
    <2>1. FutureSlugCount >= 0
      BY DiscoveryAssumption DEF Provided
    <2> QED BY <2>1, PunctualTypes DEF PunctualInv
  <1>2. NoGap' /\ AsksInOrder' /\ CycleShort' /\ NextProvided'
    <2>1. CASE PunctualStart
      BY <2>1, StartInTime
    <2>2. CASE PunctualFetch
      BY <2>2, FetchInTime
    <2>3. CASE PunctualStore \/ PunctualRestart
      BY <2>3, StoreInTime
    <2>4. CASE PunctualTick
      BY <2>4, TickInTime
    <2>5. CASE UNCHANGED punctualVars
      <3>1. /\ UNCHANGED <<now, worker, tasks, markets, stored, begun, completed>>
            /\ Window' = Window /\ NextOne' = NextOne
        BY <2>5, SameTime DEF punctualVars, vars
      <3>2. NoGap'
        BY <3>1 DEF PunctualInv, NoGap, Between
      <3>3. AsksInOrder'
        BY <3>1 DEF PunctualInv, AsksInOrder, Between
      <3>4. CycleShort' /\ NextProvided'
        BY <3>1 DEF PunctualInv, CycleShort, NextProvided
      <3> QED BY <3>2, <3>3, <3>4
    <2> QED BY <2>1, <2>2, <2>3, <2>4, <2>5 DEF PunctualNext
  <1> QED BY <1>1, <1>2 DEF PunctualInv

LEMMA WindowKnown == PunctualInv => CurrentWindowKnown
  <1> SUFFICES ASSUME PunctualInv, now >= Dur PROVE Window \in stored
    BY DEF CurrentWindowKnown
  <1>1. now \in Nat /\ Dur \in Nat \ {0} /\ Window \in Nat /\ IsWindow(Window)
        /\ Window <= now /\ now < Window + Dur
    BY PunctualFacts, NowFacts
  <1>2. Window \in Between(0, now + 1)
    BY <1>1 DEF Between
  <1> QED BY <1>2 DEF PunctualInv, NoGap

(* When Gamma lists the next window in time, the first upsert of a cycle is *)
(* not lost and a cycle starts and ends in every window, the market of      *)
(* every window but the first is stored when the window starts, wherever    *)
(* the process is restarted and however often the second upsert is lost.    *)
THEOREM StoredInTime == Provided => (PunctualSpec => []CurrentWindowKnown)
  <1> SUFFICES ASSUME Provided PROVE PunctualSpec => []CurrentWindowKnown
    OBVIOUS
  <1>1. PunctualInv /\ [PunctualNext]_punctualVars => PunctualInv'
    BY PunctualInvKept
  <1> QED BY <1>1, WindowKnown, PunctualInitHolds, PTL DEF PunctualSpec

-----------------------------------------------------------------------------
(* The collector's list over the stored windows. *)

LEMMA WindowStep == [WindowNext]_windowVars => [PunctualNext]_punctualVars
  <1>1. RefreshBegin \/ RefreshEnd \/ RefreshFails \/ UNCHANGED windowVars
            => UNCHANGED punctualVars
    BY DEF RefreshBegin, RefreshEnd, RefreshFails, windowVars
  <1>2. Discover \/ WindowTick => PunctualNext
    BY DEF Discover, WindowTick, PunctualNext
  <1>3. WindowRestart => PunctualNext \/ UNCHANGED punctualVars
    BY DEF WindowRestart, PunctualNext
  <1> QED BY <1>1, <1>2, <1>3 DEF WindowNext

(* The collector changes nothing of discovery. *)
THEOREM WindowIsPunctual == WindowSpec => PunctualSpec
  <1>1. WindowInit => PunctualInit
    BY DEF WindowInit
  <1> QED BY <1>1, WindowStep, PTL DEF WindowSpec, PunctualSpec

WindowTypeInv == DiscoveryInv /\ WindowTypeOK

(* What a step does to the clock, in windows. *)
LEMMA ClockStep ==
  ASSUME WindowTypeInv, [WindowNext]_windowVars
  PROVE  /\ now \in Nat /\ Window \in Nat /\ Window <= now
         /\ \/ now' = now /\ Window' = Window
            \/ /\ WindowTick /\ now' = now + 1 /\ (now + 1) % Dur = 0
               /\ Window' = now + 1
            \/ /\ WindowTick /\ now' = now + 1 /\ (now + 1) % Dur # 0
               /\ Window' = Window /\ ~IsWindow(now + 1)
  <1>1. now \in Nat
    BY DiscoveryAssumption DEF WindowTypeInv, DiscoveryInv, TypeOK
  <1>2. Window \in Nat /\ Window <= now
    BY <1>1, NowFacts
  <1>3. CASE WindowTick
    <2>1. now' = now + 1
      BY <1>3 DEF WindowTick, PunctualTick, Tick
    <2> QED BY <1>1, <1>2, <1>3, <2>1, TickFacts
  <1>4. CASE ~WindowTick
    <2>1. now' = now
      BY <1>4 DEF WindowNext, RefreshBegin, RefreshEnd, RefreshFails, Discover, WindowRestart,
                  PunctualStart, StartCycle, PunctualFetch, FetchFound, FetchMissing,
                  PunctualStore, FetchesDone, Upsert, MergeUpsert, PunctualRestart, Restart,
                  windowVars, punctualVars, vars
    <2> QED BY <1>1, <1>2, <2>1, SameTime
  <1> QED BY <1>3, <1>4

LEMMA WindowInitHolds == WindowInit => WindowTypeInv
  <1> SUFFICES ASSUME WindowInit PROVE WindowTypeInv
    OBVIOUS
  <1>1. PunctualInv
    BY PunctualInitHolds DEF WindowInit
  <1>2. now = 0
    BY DEF WindowInit, PunctualInit, Init
  <1>3. Window \in Nat /\ Window <= 0
    BY <1>2, NowFacts
  <1> QED BY <1>1, <1>2, <1>3, TokenWindowAssumption
          DEF WindowInit, WindowTypeOK, WindowTypeInv, PunctualInv

LEMMA WindowTypesKept ==
  FutureSlugCount >= 0 /\ WindowTypeInv /\ [WindowNext]_windowVars => WindowTypeInv'
  <1> SUFFICES ASSUME FutureSlugCount >= 0, WindowTypeInv, [WindowNext]_windowVars
               PROVE  WindowTypeInv'
    OBVIOUS
  <1>1. DiscoveryInv' /\ PunctualTypeOK' /\ stored \subseteq stored'
    BY WindowStep, PunctualTypes DEF WindowTypeInv, WindowTypeOK
  <1>2. /\ now \in Nat /\ Window \in Nat /\ Window <= now
        /\ RefreshEvery \in Nat \ {0} /\ MaxFailures \in Nat
        /\ cache \in -1..now /\ (cache # -1 => cache \in stored) /\ asked \in -1..now
        /\ due \in 0..RefreshEvery /\ since \in Window..now /\ failures \in 0..MaxFailures
    BY ClockStep, TokenWindowAssumption DEF WindowTypeInv, WindowTypeOK
  <1>3. /\ cache' \in -1..now' /\ (cache' # -1 => cache' \in stored') /\ asked' \in -1..now'
        /\ due' \in 0..RefreshEvery /\ since' \in Window'..now' /\ failures' \in 0..MaxFailures
    <2>1. CASE RefreshBegin
      <3>1. now' = now /\ Window' = Window
        BY <2>1, SameTime DEF RefreshBegin, punctualVars, vars
      <3> QED BY <1>1, <1>2, <2>1, <3>1 DEF RefreshBegin, SlugToAsk
    <2>2. CASE RefreshEnd
      <3>1. now' = now /\ Window' = Window
        BY <2>2, SameTime DEF RefreshEnd, punctualVars, vars
      <3>2. /\ cache' \in {cache, -1} \/ (cache' = asked /\ asked \in stored)
            /\ asked' = -1 /\ UNCHANGED <<due, since, failures>>
        BY <2>2 DEF RefreshEnd
      <3> QED BY <1>1, <1>2, <3>1, <3>2
    <2>3. CASE RefreshFails
      <3>1. now' = now /\ Window' = Window
        BY <2>3, SameTime DEF RefreshFails, punctualVars, vars
      <3> QED BY <1>1, <1>2, <2>3, <3>1 DEF RefreshFails
    <2>4. CASE Discover \/ UNCHANGED windowVars
      <3>1. UNCHANGED listVars
        BY <2>4 DEF Discover, windowVars
      <3>2. now' = now /\ Window' = Window
        <4>1. now' = now
          BY <2>4 DEF Discover, PunctualStart, StartCycle, PunctualFetch, FetchFound,
                      FetchMissing, PunctualStore, FetchesDone, Upsert, MergeUpsert,
                      windowVars, punctualVars, vars
        <4> QED BY <4>1, SameTime
      <3> QED BY <1>1, <1>2, <3>1, <3>2 DEF listVars
    <2>5. CASE WindowRestart
      <3>1. now' = now /\ Window' = Window
        <4>1. now' = now
          BY <2>5 DEF WindowRestart, PunctualRestart, Restart, punctualVars, vars
        <4> QED BY <4>1, SameTime
      <3> QED BY <1>1, <1>2, <2>5, <3>1 DEF WindowRestart
    <2>6. CASE WindowTick
      <3>1. now' = now + 1
        BY <2>6 DEF WindowTick, PunctualTick, Tick
      <3>2. due' \in 0..RefreshEvery /\ UNCHANGED <<cache, asked>>
        BY <1>2, <2>6 DEF WindowTick
      <3>3. IF (now + 1) % Dur = 0 THEN since' = now + 1 /\ failures' = 0
                                   ELSE UNCHANGED <<since, failures>>
        BY <2>6 DEF WindowTick
      <3>4. /\ (now + 1) % Dur = 0 => Window' = now + 1
            /\ (now + 1) % Dur # 0 => Window' = Window
        BY <1>2, <3>1, TickFacts
      <3>5. since' \in Window'..now' /\ failures' \in 0..MaxFailures
        <4>1. CASE (now + 1) % Dur = 0
          BY <1>2, <3>1, <3>3, <3>4, <4>1
        <4>2. CASE (now + 1) % Dur # 0
          BY <1>2, <3>1, <3>3, <3>4, <4>2
        <4> QED BY <4>1, <4>2
      <3> QED BY <1>1, <1>2, <3>1, <3>2, <3>5
    <2> QED BY <2>1, <2>2, <2>3, <2>4, <2>5, <2>6 DEF WindowNext
  <1> QED BY <1>1, <1>3 DEF WindowTypeInv, WindowTypeOK

(* The list holds the tokens of a stored window that has begun, and the     *)
(* refresher's state stays within its types.                                *)
THEOREM WindowTypeCorrect == FutureSlugCount >= 0 => (WindowSpec => []WindowTypeOK)
  <1> SUFFICES ASSUME FutureSlugCount >= 0 PROVE WindowSpec => []WindowTypeOK
    OBVIOUS
  <1>1. WindowTypeInv /\ [WindowNext]_windowVars => WindowTypeInv'
    BY WindowTypesKept
  <1>2. WindowTypeInv => WindowTypeOK
    BY DEF WindowTypeInv
  <1> QED BY <1>1, <1>2, WindowInitHolds, PTL DEF WindowSpec

(* A query runs for the present window when the list already holds it, ...  *)
AsksForPresent == cache = Window /\ asked # -1 => asked = Window

(* ... and a list without the present window is not older than the periods  *)
(* that the failed queries, and the one under way, have cost.               *)
Slack == (1 + failures) * RefreshEvery + (IF asked = Window THEN RefreshEvery ELSE 0)
SoonAsked == now >= Dur /\ cache # Window => (now - since) + due < Slack

WindowInv == PunctualInv /\ WindowTypeOK /\ AsksForPresent /\ SoonAsked

LEMMA Periods ==
  ASSUME NEW f \in Nat, NEW p \in Nat
  PROVE  /\ f * p \in Nat /\ (1 + f) * p = p + f * p
         /\ (2 + f) * p = p + p + f * p
         /\ (1 + (f + 1)) * p = p + p + f * p
         /\ (1 + 0) * p = p
  OBVIOUS

LEMMA WindowInvFacts ==
  ASSUME WindowInv
  PROVE  /\ WindowTypeInv /\ Dur \in Nat \ {0}
         /\ now \in Nat /\ Window \in Nat /\ Window <= now
         /\ RefreshEvery \in Nat \ {0}
         /\ cache \in -1..now /\ asked \in -1..now /\ due \in Nat
         /\ since \in Nat /\ since <= now /\ failures \in Nat
  <1>1. now \in Nat /\ Dur \in Nat \ {0}
    BY PunctualFacts DEF WindowInv
  <1>2. Window \in Nat /\ Window <= now
    BY <1>1, NowFacts
  <1> QED BY <1>1, <1>2, TokenWindowAssumption DEF WindowInv, WindowTypeInv, WindowTypeOK, PunctualInv

(* The query of the present window, and no other, may update the list.      *)
LEMMA RefreshInTime ==
  ASSUME WindowInv, RefreshBegin \/ RefreshEnd \/ RefreshFails
  PROVE  AsksForPresent' /\ SoonAsked'
  <1>1. /\ now' = now /\ UNCHANGED <<stored, since>>
    BY DEF RefreshBegin, RefreshEnd, RefreshFails, punctualVars, vars
  <1>2. Window' = Window
    BY <1>1, SameTime
  <1>3. /\ now \in Nat /\ Window \in Nat /\ RefreshEvery \in Nat \ {0}
        /\ asked \in Int /\ due \in Nat /\ since \in Nat /\ failures \in Nat
    BY WindowInvFacts
  <1> DEFINE R == RefreshEvery
             g == failures * RefreshEvery
  <1>4. /\ g \in Nat /\ (1 + failures) * R = R + g
        /\ (1 + (failures + 1)) * R = R + R + g
    BY <1>3, Periods
  <1> HIDE DEF g
  <1>5. AsksForPresent /\ SoonAsked
    BY DEF WindowInv
  <1>6. CASE RefreshBegin
    <2>1. /\ due = 0 /\ asked = -1 /\ asked' = Window /\ due' = R
          /\ UNCHANGED <<cache, failures>>
      BY <1>6 DEF RefreshBegin, SlugToAsk
    <2>2. Slack = R + g /\ Slack' = R + g + R
      BY <1>2, <1>3, <1>4, <2>1 DEF Slack
    <2>3. AsksForPresent'
      BY <1>2, <2>1 DEF AsksForPresent
    <2>4. SoonAsked'
      <3> SUFFICES ASSUME now >= Dur, cache # Window
                   PROVE  (now - since) + due' < Slack'
        BY <1>1, <1>2, <2>1 DEF SoonAsked
      <3>1. (now - since) + due < Slack
        BY <1>5 DEF SoonAsked
      <3> QED BY <1>3, <1>4, <2>1, <2>2, <3>1
    <2> QED BY <2>3, <2>4
  <1>7. CASE RefreshEnd
    <2>1. asked # -1 /\ asked' = -1 /\ UNCHANGED <<due, failures>>
      BY <1>7 DEF RefreshEnd
    <2>2. AsksForPresent'
      BY <2>1 DEF AsksForPresent
    <2>3. SoonAsked'
      <3> SUFFICES ASSUME now >= Dur, cache' # Window
                   PROVE  (now - since) + due < Slack'
        BY <1>1, <1>2, <2>1 DEF SoonAsked
      <3>1. asked # Window
        <4>1. Window \in stored
          BY WindowKnown DEF WindowInv, CurrentWindowKnown
        <4>2. asked \in stored => cache' = asked
          BY <1>7 DEF RefreshEnd
        <4> QED BY <4>1, <4>2
      <3>2. cache # Window
        BY <1>5, <2>1, <3>1 DEF AsksForPresent
      <3>3. (now - since) + due < Slack
        BY <1>5, <3>2 DEF SoonAsked
      <3>4. Slack' = Slack
        BY <1>2, <1>3, <1>4, <2>1, <3>1 DEF Slack
      <3> QED BY <3>3, <3>4
    <2> QED BY <2>2, <2>3
  <1>8. CASE RefreshFails
    <2>1. /\ asked # -1 /\ asked' = -1 /\ failures' = failures + 1
          /\ UNCHANGED <<cache, due>>
      BY <1>8 DEF RefreshFails
    <2>2. AsksForPresent'
      BY <2>1 DEF AsksForPresent
    <2>3. Slack \in Int /\ Slack <= R + g + R /\ Slack' = R + R + g
      BY <1>2, <1>3, <1>4, <2>1 DEF Slack
    <2>4. SoonAsked'
      <3> SUFFICES ASSUME now >= Dur, cache # Window
                   PROVE  (now - since) + due < Slack'
        BY <1>1, <1>2, <2>1 DEF SoonAsked
      <3>1. (now - since) + due < Slack
        BY <1>5 DEF SoonAsked
      <3> QED BY <1>3, <1>4, <2>3, <3>1
    <2> QED BY <2>2, <2>4
  <1> QED BY <1>6, <1>7, <1>8

(* A new window starts a new account; time that passes is time the ticker   *)
(* has come nearer.                                                         *)
LEMMA ClockInTime ==
  ASSUME WindowInv, WindowTick
  PROVE  AsksForPresent' /\ SoonAsked'
  <1>1. /\ now \in Nat /\ Window \in Nat /\ Window <= now /\ Dur \in Nat \ {0}
        /\ RefreshEvery \in Nat \ {0} /\ cache \in -1..now /\ asked \in -1..now
        /\ due \in Nat /\ since \in Nat /\ failures \in Nat
    BY WindowInvFacts
  <1>2. /\ now' = now + 1 /\ due > 0 /\ due' = due - 1
        /\ UNCHANGED <<cache, asked>>
        /\ IF (now + 1) % Dur = 0 THEN since' = now + 1 /\ failures' = 0
                                  ELSE UNCHANGED <<since, failures>>
    BY DEF WindowTick, PunctualTick, Tick
  <1>3. due <= RefreshEvery
    BY <1>1, TokenWindowAssumption DEF WindowInv, WindowTypeOK
  <1>4. CASE (now + 1) % Dur = 0
    <2>1. Window' = now + 1
      BY <1>1, <1>2, <1>4, TickFacts
    <2>2. AsksForPresent'
      BY <1>1, <1>2, <2>1 DEF AsksForPresent
    <2>3. Slack' = RefreshEvery
      <3>1. failures' = 0 /\ asked' # Window' /\ (1 + 0) * RefreshEvery = RefreshEvery
        BY <1>1, <1>2, <1>4, <2>1, Periods
      <3> QED BY <1>1, <3>1 DEF Slack
    <2>4. (now' - since') + due' < Slack'
      BY <1>1, <1>2, <1>3, <1>4, <2>3
    <2> QED BY <2>2, <2>4 DEF SoonAsked
  <1>5. CASE (now + 1) % Dur # 0
    <2>1. Window' = Window /\ ~IsWindow(now + 1)
      BY <1>1, <1>2, <1>5, TickFacts
    <2>2. AsksForPresent'
      BY <1>2, <2>1 DEF WindowInv, AsksForPresent
    <2>3. Slack' = Slack
      BY <1>2, <1>5, <2>1 DEF Slack
    <2>4. now + 1 # Dur
      <3>1. Dur = 1 * Dur
        BY <1>1
      <3>2. IsWindow(Dur)
        BY <3>1 DEF IsWindow
      <3> QED BY <2>1, <3>2
    <2>5. SoonAsked'
      <3> SUFFICES ASSUME now' >= Dur, cache # Window
                   PROVE  (now' - since') + due' < Slack'
        BY <1>2, <2>1 DEF SoonAsked
      <3>1. now >= Dur
        BY <1>1, <1>2, <2>4
      <3>2. (now - since) + due < Slack
        BY <3>1 DEF WindowInv, SoonAsked
      <3>3. (now' - since') + due' = (now - since) + due
        BY <1>1, <1>2, <1>5
      <3> QED BY <2>3, <3>2, <3>3
    <2> QED BY <2>2, <2>5
  <1> QED BY <1>4, <1>5

LEMMA WindowInvKept ==
  Provided /\ WindowInv /\ [WindowNext]_windowVars => WindowInv'
  <1> SUFFICES ASSUME Provided, WindowInv, [WindowNext]_windowVars
               PROVE  WindowInv'
    OBVIOUS
  <1>1. PunctualInv'
    BY WindowStep, PunctualInvKept DEF WindowInv
  <1>2. WindowTypeOK'
    <2>1. FutureSlugCount >= 0
      BY DiscoveryAssumption DEF Provided
    <2> QED BY <2>1, WindowInvFacts, WindowTypesKept DEF WindowTypeInv
  <1>3. AsksForPresent' /\ SoonAsked'
    <2>1. CASE RefreshBegin \/ RefreshEnd \/ RefreshFails
      BY <2>1, RefreshInTime
    <2>2. CASE WindowTick
      BY <2>2, ClockInTime
    <2>3. CASE WindowRestart
      <3>1. now' = now
        BY <2>3 DEF WindowRestart, PunctualRestart, Restart, punctualVars, vars
      <3>2. /\ asked' = -1 /\ due' = 0 /\ since' = now' /\ failures' = 0
            /\ Window' = Window /\ Window \in Nat /\ now \in Nat /\ RefreshEvery \in Nat \ {0}
        BY <2>3, <3>1, SameTime, WindowInvFacts DEF WindowRestart
      <3>3. AsksForPresent'
        BY <3>2 DEF AsksForPresent
      <3>4. Slack' = RefreshEvery
        <4>1. (1 + 0) * RefreshEvery = RefreshEvery
          BY <3>2, Periods
        <4> QED BY <3>2, <4>1 DEF Slack
      <3>5. SoonAsked'
        BY <3>1, <3>2, <3>4 DEF SoonAsked
      <3> QED BY <3>3, <3>5
    <2>4. CASE Discover \/ UNCHANGED windowVars
      <3>1. UNCHANGED listVars /\ now' = now
        BY <2>4 DEF Discover, PunctualStart, StartCycle, PunctualFetch, FetchFound,
                    FetchMissing, PunctualStore, FetchesDone, Upsert, MergeUpsert,
                    windowVars, punctualVars, vars
      <3>2. Window' = Window
        BY <3>1, SameTime
      <3> QED BY <3>1, <3>2 DEF WindowInv, AsksForPresent, SoonAsked, Slack, listVars
    <2> QED BY <2>1, <2>2, <2>3, <2>4 DEF WindowNext
  <1> QED BY <1>1, <1>2, <1>3 DEF WindowInv

LEMMA WindowInvariant == Provided => (WindowSpec => []WindowInv)
  <1> SUFFICES ASSUME Provided PROVE WindowSpec => []WindowInv
    OBVIOUS
  <1>1. WindowInv /\ [WindowNext]_windowVars => WindowInv'
    BY WindowInvKept
  <1>2. WindowInit => WindowInv
    <2> SUFFICES ASSUME WindowInit PROVE WindowInv
      OBVIOUS
    <2>1. PunctualInv /\ WindowTypeOK
      BY PunctualInitHolds, WindowInitHolds DEF WindowInit, WindowTypeInv
    <2>2. now = 0 /\ asked = -1 /\ Dur \in Nat \ {0}
      BY DiscoveryAssumption DEF WindowInit, PunctualInit, Init
    <2>3. AsksForPresent /\ SoonAsked
      BY <2>2 DEF AsksForPresent, SoonAsked
    <2> QED BY <2>1, <2>3 DEF WindowInv
  <1> QED BY <1>1, <1>2, PTL DEF WindowSpec

(* The collector finds the market of every window but the first in the      *)
(* table, however the two goroutines and the restarts interleave.           *)
THEOREM WindowStored == Provided => (WindowSpec => []CurrentWindowKnown)
  <1> SUFFICES ASSUME Provided PROVE WindowSpec => []CurrentWindowKnown
    OBVIOUS
  <1>1. WindowInv => CurrentWindowKnown
    BY WindowKnown DEF WindowInv
  <1> QED BY <1>1, WindowInvariant, PTL

(* Two refresh periods into a window, and one more for each query that      *)
(* failed in it, the collector's list holds the tokens of that window, for  *)
(* every refresh period and every number of failures.                       *)
THEOREM ListFollowsWindow == Provided => (WindowSpec => []TokensFollowWindow)
  <1> SUFFICES ASSUME Provided PROVE WindowSpec => []TokensFollowWindow
    OBVIOUS
  <1>1. WindowInv => TokensFollowWindow
    <2> SUFFICES ASSUME WindowInv, now >= Dur, cache # Window
                 PROVE  ~(now - since >= (2 + failures) * RefreshEvery)
      BY DEF TokensFollowWindow
    <2>1. /\ now \in Nat /\ RefreshEvery \in Nat
          /\ due \in Nat /\ since \in Nat /\ failures \in Nat
      BY WindowInvFacts
    <2> DEFINE g == failures * RefreshEvery
    <2>2. /\ g \in Nat /\ (1 + failures) * RefreshEvery = RefreshEvery + g
          /\ (2 + failures) * RefreshEvery = RefreshEvery + RefreshEvery + g
      BY <2>1, Periods
    <2>3. (now - since) + due < Slack
      BY DEF WindowInv, SoonAsked
    <2> HIDE DEF g
    <2>4. Slack \in Int /\ Slack <= RefreshEvery + g + RefreshEvery
      BY <2>1, <2>2 DEF Slack
    <2> QED BY <2>1, <2>2, <2>3, <2>4
  <1> QED BY <1>1, WindowInvariant, PTL
=============================================================================
