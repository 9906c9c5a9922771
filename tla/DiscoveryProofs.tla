--------------------------- MODULE DiscoveryProofs ---------------------------
(***************************************************************************)
(* Proofs about Discovery, for windows of any length, any number of slugs  *)
(* per cycle and any behaviour of Gamma and the database.                  *)
(***************************************************************************)
EXTENDS Discovery, SequenceTheorems, WellFoundedInduction, TLAPS

-----------------------------------------------------------------------------
(* Numbers. *)

(* A set of integers with an upper bound has a greatest element. *)
LEMMA GreatestExists ==
  ASSUME NEW S \in SUBSET Int, S # {}, NEW b \in Int, \A s \in S : s <= b
  PROVE  \E s \in S : \A r \in S : r <= s
  <1> DEFINE R == {p \in Nat \X Nat : p[1] < p[2]}
             T == {n \in Nat : b - n \in S}
  <1>1. IsWellFoundedOn(R, Nat)
    BY NatLessThanWellFounded DEF OpToRel
  <1>2. \A s \in S : b - s \in T
    OBVIOUS
  <1>3. T \subseteq Nat /\ T # {}
    BY <1>2
  <1>4. PICK n \in T : \A m \in T : ~(<<m, n>> \in R)
    <2> HIDE DEF R, T
    <2> QED BY <1>1, <1>3, WFMin
  <1>5. \A m \in T : ~(m < n)
    BY <1>3, <1>4
  <1>6. b - n \in S /\ n \in Nat
    OBVIOUS
  <1>7. \A r \in S : r <= b - n
    <2> SUFFICES ASSUME NEW r \in S PROVE r <= b - n
      OBVIOUS
    <2>1. ~(b - r < n)
      BY <1>2, <1>5
    <2> QED BY <1>6, <2>1
  <1> QED BY <1>6, <1>7

(* Multiples of the length of a window. *)
LEMMA NextMultiple ==
  ASSUME NEW d \in Nat \ {0}, NEW j \in Int, NEW k \in Int, k * d < j * d + d
  PROVE  k * d <= j * d
  <1>1. CASE k <= j
    BY <1>1
  <1>2. CASE k > j
    <2>1. k - j - 1 \in Nat
      BY <1>2
    <2>2. (k - j - 1) * d >= 0
      BY <2>1
    <2>3. (k - j - 1) * d = k * d - j * d - d
      OBVIOUS
    <2> QED BY <2>2, <2>3
  <1> QED BY <1>1, <1>2

LEMMA Quotient ==
  ASSUME NEW d \in Nat \ {0}, NEW n \in Nat
  PROVE  /\ n \div d \in Nat
         /\ (n \div d) * d <= n
         /\ n < (n \div d) * d + d
  OBVIOUS

LEMMA WholeQuotient ==
  ASSUME NEW d \in Nat \ {0}, NEW j \in Int
  PROVE  (j * d) \div d = j
  OBVIOUS

LEMMA WindowFacts ==
  ASSUME NEW n \in Nat
  PROVE  /\ CurrentSlug(n, Dur) \in Nat
         /\ CurrentSlug(n, Dur) <= n /\ n < CurrentSlug(n, Dur) + Dur
  <1>1. Dur \in Nat \ {0}
    BY DiscoveryAssumption
  <1>2. n \div Dur \in Nat /\ (n \div Dur) * Dur <= n /\ n < (n \div Dur) * Dur + Dur
    BY <1>1, Quotient
  <1> HIDE DEF CurrentSlug
  <1>3. CurrentSlug(n, Dur) = (n \div Dur) * Dur
    BY DEF CurrentSlug
  <1> QED BY <1>1, <1>2, <1>3

-----------------------------------------------------------------------------
(* The slugs of a cycle. *)

IsWindow(s) == \E k \in Int : s = k * Dur

(* Window after window. *)
Consecutive(list) == \A i \in DOMAIN list : list[i] = list[1] + (i - 1) * Dur

LEMMA NextWindow ==
  ASSUME NEW s, IsWindow(s), NEW w, IsWindow(w), w < s + Dur
  PROVE  w <= s
  <1>1. PICK j \in Int : s = j * Dur
    BY DEF IsWindow
  <1>2. PICK k \in Int : w = k * Dur
    BY DEF IsWindow
  <1> QED BY <1>1, <1>2, NextMultiple, DiscoveryAssumption

LEMMA Later ==
  ASSUME NEW s, IsWindow(s), NEW i \in Int
  PROVE  IsWindow(s + i * Dur) /\ s \in Int /\ s + i * Dur \in Int
  <1>1. PICK j \in Int : s = j * Dur
    BY DEF IsWindow
  <1>2. j + i \in Int /\ Dur \in Int /\ s + i * Dur = (j + i) * Dur
    BY <1>1, DiscoveryAssumption
  <1> QED BY <1>1, <1>2 DEF IsWindow

(* GenerateInitialSlugs and GenerateNextSlugs both list the windows that    *)
(* follow a window.                                                         *)
LEMMA SlugsFacts ==
  ASSUME NEW s, IsWindow(s), NEW n \in Int, NEW list,
         list = [i \in 1..n |-> s + i * Dur]
  PROVE  /\ list \in Seq(Int) /\ DOMAIN list = 1..n
         /\ Consecutive(list)
         /\ \A i \in DOMAIN list : IsWindow(list[i]) /\ s < list[i]
         /\ list # <<>> => list[1] = s + Dur
  <1>1. Dur \in Nat \ {0} /\ s \in Int
    BY Later, DiscoveryAssumption DEF IsWindow
  <1>2. \A i \in 1..n : IsWindow(list[i]) /\ list[i] \in Int
    <2> SUFFICES ASSUME NEW i \in 1..n
                 PROVE  IsWindow(s + i * Dur) /\ s + i * Dur \in Int
      OBVIOUS
    <2>1. i \in Int
      OBVIOUS
    <2> QED BY <2>1, Later
  <1>3. list \in Seq(Int)
    <2>1. CASE n \in Nat
      <3>1. list \in [1..n -> Int]
        BY <1>2
      <3> QED BY <2>1, <3>1, SeqDef
    <2>2. CASE n \notin Nat
      <3>1. 1..n = 1..0 /\ 0 \in Nat
        BY <2>2
      <3>2. list \in [1..0 -> Int]
        BY <1>2, <3>1
      <3> QED BY <3>1, <3>2, SeqDef
    <2> QED BY <2>1, <2>2
  <1>4. \A i \in 1..n : i * Dur >= Dur
    <2> SUFFICES ASSUME NEW i \in 1..n PROVE i * Dur >= Dur
      OBVIOUS
    <2>1. i - 1 \in Nat /\ (i - 1) * Dur >= 0 /\ (i - 1) * Dur = i * Dur - Dur
      BY <1>1
    <2> QED BY <1>1, <2>1
  <1>5. \A i \in 1..n : s < list[i]
    BY <1>1, <1>4
  <1>6. 1 \in 1..n => list[1] = s + Dur
    BY <1>1
  <1>7. Consecutive(list)
    <2> SUFFICES ASSUME NEW i \in 1..n
                 PROVE  list[i] = list[1] + (i - 1) * Dur
      BY DEF Consecutive
    <2>1. 1 \in 1..n /\ (i - 1) * Dur = i * Dur - Dur
      BY <1>1
    <2> QED BY <1>1, <1>6, <2>1
  <1>8. list # <<>> => 1 \in 1..n
    <2>1. list # <<>> => Len(list) \in Nat \ {0} /\ DOMAIN list = 1..Len(list)
      BY <1>3, LenProperties, EmptySeq
    <2> QED BY <2>1
  <1> QED BY <1>2, <1>3, <1>5, <1>6, <1>7, <1>8

(* Once its head is asked for, the rest of the list follows it. *)
LEMMA TailFacts ==
  ASSUME NEW list \in Seq(Int), list # <<>>, Consecutive(list)
  PROVE  /\ Head(list) = list[1] /\ 1 \in DOMAIN list /\ list[1] \in Int
         /\ Tail(list) \in Seq(Int) /\ Consecutive(Tail(list))
         /\ \A i \in DOMAIN Tail(list) : i + 1 \in DOMAIN list
                                          /\ Tail(list)[i] = list[i + 1]
         /\ Tail(list) # <<>> => Head(Tail(list)) = Head(list) + Dur
  <1>1. /\ Len(list) \in Nat \ {0} /\ DOMAIN list = 1..Len(list)
        /\ Head(list) = list[1] /\ Tail(list) \in Seq(Int)
    BY LenProperties, EmptySeq, HeadTailProperties
  <1>2. /\ DOMAIN Tail(list) = 1..(Len(list) - 1)
        /\ \A i \in 1..(Len(list) - 1) : Tail(list)[i] = list[i + 1]
    BY <1>1, HeadTailProperties, LenProperties
  <1>3. list[1] \in Int /\ Dur \in Int /\ 1 \in DOMAIN list
    BY <1>1, ElementOfSeq, DiscoveryAssumption
  <1>4. \A i \in 1..(Len(list) - 1) :
            i + 1 \in DOMAIN list /\ Tail(list)[i] = list[1] + i * Dur
    <2> SUFFICES ASSUME NEW i \in 1..(Len(list) - 1)
                 PROVE  i + 1 \in DOMAIN list /\ Tail(list)[i] = list[1] + i * Dur
      OBVIOUS
    <2>1. i + 1 \in 1..Len(list) /\ (i + 1) - 1 = i
      BY <1>1
    <2> QED BY <1>1, <1>2, <2>1 DEF Consecutive
  <1>5. 1 \in DOMAIN Tail(list) => Tail(list)[1] = list[1] + Dur
    BY <1>2, <1>3, <1>4
  <1>6. Consecutive(Tail(list))
    <2> SUFFICES ASSUME NEW i \in 1..(Len(list) - 1)
                 PROVE  Tail(list)[i] = Tail(list)[1] + (i - 1) * Dur
      BY <1>2 DEF Consecutive
    <2>1. 1 \in DOMAIN Tail(list) /\ (i - 1) * Dur = i * Dur - Dur /\ i * Dur \in Int
      BY <1>1, <1>2, <1>3
    <2> QED BY <1>3, <1>4, <1>5, <2>1
  <1>7. Tail(list) # <<>> => Head(Tail(list)) = Tail(list)[1] /\ 1 \in DOMAIN Tail(list)
    BY <1>1, LenProperties, EmptySeq, HeadTailProperties
  <1> QED BY <1>1, <1>2, <1>3, <1>4, <1>5, <1>6, <1>7

-----------------------------------------------------------------------------
(* The invariant. *)

(* The windows after a and before b. *)
Between(a, b) == {w \in Int : IsWindow(w) /\ a < w /\ w < b}

Accounted == stored \cup missing \cup failed

(* Slugs are windows, and none lies after the last window Gamma lists. *)
SlugsListed ==
    /\ \A s \in stored \cup markets : IsWindow(s) /\ s <= MaxSlug
    /\ worker = "idle" => markets = {}

(* A cycle asks for one window after the other, all after the stored ones.  *)
TasksAhead ==
    worker = "fetch" =>
        /\ Consecutive(tasks)
        /\ \A i \in DOMAIN tasks : IsWindow(tasks[i]) /\ \A r \in Dated : r < tasks[i]

(* Every window before the one asked for next, before one found in this     *)
(* cycle and before a stored one has an answer; what was found in this      *)
(* cycle counts only until the anchor passes it.                            *)
NothingSkipped ==
    /\ worker = "fetch" /\ tasks # <<>> => Between(restarted, Head(tasks)) \subseteq Accounted \cup markets
    /\ \A m \in markets : Between(restarted, m) \subseteq Accounted \cup markets
    /\ \A r \in Dated : Between(restarted, r) \subseteq Accounted

DiscoveryInv == TypeOK /\ SlugsListed /\ TasksAhead /\ NothingSkipped

(* The anchor is the greatest stored slug with a start date. *)
LEMMA AnchorFacts ==
  ASSUME DiscoveryInv, Dated # {}
  PROVE  LatestSlug \in Dated /\ \A r \in Dated : r <= LatestSlug
  <1>1. Dated \in SUBSET Int /\ MaxSlug \in Int /\ \A r \in Dated : r <= MaxSlug
    BY DiscoveryAssumption DEF DiscoveryInv, TypeOK, SlugsListed, Dated
  <1>2. \E s \in Dated : \A r \in Dated : r <= s
    BY <1>1, GreatestExists
  <1> QED BY <1>2 DEF LatestSlug

LEMMA DiscoveryInit == Init => DiscoveryInv
  <1> SUFFICES ASSUME Init PROVE DiscoveryInv
    OBVIOUS
  <1>1. TypeOK
    <2>1. <<>> \in Seq(Int) /\ 0 \in 0..MaxTime /\ -1 \in -1..MaxTime
      BY EmptySeq, DiscoveryAssumption
    <2> QED BY <2>1 DEF Init, TypeOK
  <1> QED
    BY <1>1 DEF DiscoveryInv, Init, SlugsListed, TasksAhead, NothingSkipped, Dated

LEMMA StartFromAnchor ==
  ASSUME DiscoveryInv, StartCycle, FromAnchor
  PROVE  DiscoveryInv'
  <1>1. /\ worker = "idle" /\ worker' = "fetch" /\ tasks' = NextSlugs
        /\ UNCHANGED <<now, markets, stored, missing, failed, restarted>>
    BY DEF StartCycle
  <1>2. LatestSlug \in Dated /\ \A r \in Dated : r <= LatestSlug
    BY AnchorFacts DEF FromAnchor
  <1>3. IsWindow(LatestSlug) /\ LatestSlug \in Int
    BY <1>2, Later DEF DiscoveryInv, SlugsListed, TypeOK, Dated
  <1>4. /\ tasks' \in Seq(Int) /\ Consecutive(tasks')
        /\ \A i \in DOMAIN tasks' : IsWindow(tasks'[i]) /\ LatestSlug < tasks'[i]
        /\ tasks' # <<>> => tasks'[1] = LatestSlug + Dur
    <2>1. NextSlugs = [i \in 1..FutureSlugCount |-> LatestSlug + i * Dur]
      BY DEF NextSlugs, GenerateNextSlugs
    <2>2. FutureSlugCount \in Int
      BY DiscoveryAssumption
    <2> HIDE DEF NextSlugs
    <2> QED BY <1>1, <1>3, <2>1, <2>2, SlugsFacts
  <1>5. /\ \A i \in DOMAIN tasks' : tasks'[i] \in Int
        /\ tasks' # <<>> => Head(tasks') = tasks'[1]
    BY <1>4, ElementOfSeq, LenProperties, HeadTailProperties
  <1>6. TypeOK'
    BY <1>1, <1>4 DEF DiscoveryInv, TypeOK
  <1>7. SlugsListed'
    BY <1>1 DEF DiscoveryInv, SlugsListed
  <1>8. TasksAhead'
    <2> SUFFICES ASSUME NEW i \in DOMAIN tasks', NEW r \in Dated
                 PROVE  r < tasks'[i]
      BY <1>1, <1>4 DEF TasksAhead, Dated
    <2>1. r \in Int /\ r <= LatestSlug
      BY <1>2 DEF DiscoveryInv, TypeOK, Dated
    <2> QED BY <1>3, <1>4, <1>5, <2>1
  <1>9. NothingSkipped'
    <2>1. ASSUME tasks' # <<>>, NEW w \in Between(restarted, Head(tasks'))
          PROVE  w \in Accounted
      <3>1. /\ w \in Int /\ IsWindow(w) /\ restarted < w /\ w < LatestSlug + Dur
        BY <1>4, <1>5, <2>1 DEF Between
      <3>2. w <= LatestSlug
        BY <1>3, <3>1, NextWindow
      <3>3. w = LatestSlug \/ w \in Between(restarted, LatestSlug)
        BY <1>3, <3>1, <3>2 DEF Between
      <3> QED BY <1>2, <3>3 DEF DiscoveryInv, NothingSkipped, Dated, Accounted
    <2> QED BY <1>1, <2>1 DEF DiscoveryInv, NothingSkipped, Between, Accounted, Dated
  <1> QED BY <1>6, <1>7, <1>8, <1>9 DEF DiscoveryInv

(* From the clock: no stored window lies after the current one, or its      *)
(* anchor would not be stale.                                               *)
LEMMA StartFromClock ==
  ASSUME DiscoveryInv, StartCycle, ~FromAnchor, FutureSlugCount >= 0
  PROVE  DiscoveryInv'
  <1>1. /\ worker = "idle" /\ worker' = "fetch"
        /\ tasks' = InitialSlugs /\ restarted' = Window
        /\ UNCHANGED <<now, markets, stored, missing, failed>>
    BY DEF StartCycle
  <1>2. /\ now \in 0..MaxTime /\ Window \in Nat /\ Window <= now
        /\ now < Window + Dur /\ IsWindow(Window)
    <2>1. now \in Nat /\ now \in 0..MaxTime
      BY DiscoveryAssumption DEF DiscoveryInv, TypeOK
    <2>2. now \div Dur \in Int
      BY <2>1, DiscoveryAssumption
    <2>3. IsWindow(Window)
      BY <2>2 DEF IsWindow, Window, CurrentSlug
    <2> QED BY <2>1, <2>3, WindowFacts DEF Window
  <1>3. /\ tasks' \in Seq(Int) /\ Consecutive(tasks')
        /\ \A i \in DOMAIN tasks' : IsWindow(tasks'[i]) /\ Window < tasks'[i]
        /\ tasks' # <<>> => tasks'[1] = Window + Dur
    <2>1. InitialSlugs = [i \in 1..InitialSlugCount |-> Window + i * Dur]
      BY DEF InitialSlugs, GenerateInitialSlugs, Window
    <2>2. InitialSlugCount \in Int
      BY DiscoveryAssumption
    <2> HIDE DEF InitialSlugs, Window
    <2> QED BY <1>1, <1>2, <2>1, <2>2, SlugsFacts
  <1>4. \A r \in Dated : r \in Int /\ r <= Window
    <2> SUFFICES ASSUME NEW r \in Dated PROVE r \in Int /\ r <= Window
      OBVIOUS
    <2>1. /\ LatestSlug \in Dated /\ r <= LatestSlug
          /\ LatestSlug < now - FutureSlugCount * Dur
      BY AnchorFacts DEF FromAnchor, IsStale
    <2>2. r \in Int /\ LatestSlug \in Int /\ IsWindow(r)
      BY <2>1 DEF DiscoveryInv, TypeOK, SlugsListed, Dated
    <2>3. /\ Dur \in Nat /\ FutureSlugCount \in Nat
          /\ FutureSlugCount * Dur \in Nat
      BY DiscoveryAssumption
    <2>4. r < Window + Dur
      BY <1>2, <2>1, <2>2, <2>3
    <2> QED BY <1>2, <2>2, <2>4, NextWindow
  <1>5. /\ \A i \in DOMAIN tasks' : tasks'[i] \in Int
        /\ tasks' # <<>> => Head(tasks') = tasks'[1]
    BY <1>3, ElementOfSeq, LenProperties, HeadTailProperties
  <1>6. TypeOK'
    <2>1. restarted' \in -1..MaxTime
      BY <1>1, <1>2, DiscoveryAssumption
    <2> QED BY <1>1, <1>3, <2>1 DEF DiscoveryInv, TypeOK
  <1>7. SlugsListed'
    BY <1>1 DEF DiscoveryInv, SlugsListed
  <1>8. TasksAhead'
    <2> SUFFICES ASSUME NEW i \in DOMAIN tasks', NEW r \in Dated
                 PROVE  r < tasks'[i]
      BY <1>1, <1>3 DEF TasksAhead, Dated
    <2> QED BY <1>2, <1>3, <1>4, <1>5
  <1>9. ASSUME NEW s \in Int, s <= Window + Dur
        PROVE  Between(Window, s) = {}
    <2> SUFFICES ASSUME NEW w \in Int, IsWindow(w), Window < w, w < s
                 PROVE  FALSE
      BY DEF Between
    <2>1. w < Window + Dur
      BY <1>2, <1>9, DiscoveryAssumption
    <2>2. w <= Window
      BY <1>2, <2>1, NextWindow
    <2> QED BY <1>2, <2>2
  <1>10. NothingSkipped'
    <2>1. tasks' # <<>> => Between(Window, Head(tasks')) = {}
      <3>1. Window + Dur \in Int /\ Window + Dur <= Window + Dur
        BY <1>2, DiscoveryAssumption
      <3> HIDE DEF Between
      <3> QED BY <1>3, <1>5, <1>9, <3>1
    <2>2. \A r \in Dated : Between(Window, r) = {}
      <3>1. \A r \in Dated : r \in Int /\ r <= Window + Dur
        BY <1>2, <1>4, DiscoveryAssumption
      <3> QED BY <1>9, <3>1
    <2>3. markets' = {} /\ Dated' = Dated
      BY <1>1 DEF DiscoveryInv, SlugsListed, Dated
    <2> QED BY <1>1, <2>1, <2>2, <2>3 DEF NothingSkipped
  <1> QED BY <1>6, <1>7, <1>8, <1>10 DEF DiscoveryInv

(* One task is answered, in whatever way. *)
LEMMA FetchAnswered ==
  ASSUME DiscoveryInv, worker = "fetch", tasks # <<>>,
         NEW h, h = Head(tasks), tasks' = Tail(tasks),
         UNCHANGED <<now, worker, stored, restarted>>,
         \/ markets' = markets
         \/ markets' = markets \cup {h} /\ h <= MaxSlug,
         missing' \in {missing \cup {h}, missing \ {h}},
         failed' \in {failed \cup {h}, failed \ {h}},
         h \in markets' \cup missing' \cup failed'
  PROVE  DiscoveryInv'
  <1>1. tasks \in Seq(Int) /\ Consecutive(tasks)
    BY DEF DiscoveryInv, TypeOK, TasksAhead
  <1>2. /\ h = tasks[1] /\ 1 \in DOMAIN tasks /\ h \in Int
        /\ tasks' \in Seq(Int) /\ Consecutive(tasks')
        /\ \A i \in DOMAIN tasks' : i + 1 \in DOMAIN tasks /\ tasks'[i] = tasks[i + 1]
        /\ tasks' # <<>> => Head(tasks') = h + Dur
    BY <1>1, TailFacts
  <1>3. IsWindow(h) /\ \A r \in Dated : r < h
    BY <1>2 DEF DiscoveryInv, TasksAhead
  <1>4. TypeOK'
    BY <1>2 DEF DiscoveryInv, TypeOK
  <1>5. SlugsListed'
    BY <1>3 DEF DiscoveryInv, SlugsListed
  <1>6. TasksAhead'
    BY <1>2 DEF DiscoveryInv, TasksAhead, Dated
  <1>7. /\ Accounted \cup markets \subseteq Accounted' \cup markets'
        /\ Accounted \ {h} \subseteq Accounted'
        /\ h \in Accounted' \cup markets'
    BY DEF Accounted
  <1>8. restarted' = restarted
    OBVIOUS
  <1>9. Between(restarted, h) \subseteq Accounted \cup markets
    BY DEF DiscoveryInv, NothingSkipped
  <1>10. ASSUME tasks' # <<>>, NEW w \in Between(restarted, h + Dur)
         PROVE  w \in Accounted' \cup markets'
    <2>1. w \in Int /\ IsWindow(w) /\ restarted < w /\ w < h + Dur
      BY <1>10 DEF Between
    <2>2. w <= h
      BY <1>3, <2>1, NextWindow
    <2>3. w = h \/ w \in Between(restarted, h)
      BY <1>2, <2>1, <2>2 DEF Between
    <2> QED BY <1>7, <1>9, <2>3
  <1>11. ASSUME NEW m \in markets'
         PROVE  Between(restarted, m) \subseteq Accounted' \cup markets'
    BY <1>7, <1>9, <1>11 DEF DiscoveryInv, NothingSkipped
  <1>12. ASSUME NEW r \in Dated
         PROVE  Between(restarted, r) \subseteq Accounted'
    <2>1. r \in Int /\ r < h /\ Between(restarted, r) \subseteq Accounted
      BY <1>3 DEF DiscoveryInv, NothingSkipped, TypeOK, Dated
    <2>2. h \notin Between(restarted, r)
      BY <1>2, <2>1 DEF Between
    <2> QED BY <1>7, <2>1, <2>2
  <1>13. Dated' = Dated
    BY DEF Dated
  <1>14. NothingSkipped'
    <2> HIDE DEF Between
    <2> QED BY <1>2, <1>8, <1>10, <1>11, <1>12, <1>13 DEF NothingSkipped
  <1> QED BY <1>4, <1>5, <1>6, <1>14 DEF DiscoveryInv

LEMMA FetchKeeps ==
  ASSUME DiscoveryInv, FetchFound \/ FetchMissing \/ FetchError
  PROVE  DiscoveryInv'
  <1> DEFINE h == Head(tasks)
  <1>1. CASE FetchFound
    <2>1. /\ worker = "fetch" /\ tasks # <<>> /\ h <= MaxSlug /\ tasks' = Tail(tasks)
          /\ markets' = markets \cup {h}
          /\ missing' = missing \ {h} /\ failed' = failed \ {h}
          /\ UNCHANGED <<now, worker, stored, restarted>>
      BY <1>1 DEF FetchFound
    <2>2. h \in markets'
      BY <2>1
    <2> QED BY <2>1, <2>2, FetchAnswered
  <1>2. CASE FetchMissing
    <2>1. /\ worker = "fetch" /\ tasks # <<>> /\ tasks' = Tail(tasks)
          /\ markets' = markets
          /\ missing' = missing \cup {h} /\ failed' = failed \ {h}
          /\ UNCHANGED <<now, worker, stored, restarted>>
      BY <1>2 DEF FetchMissing
    <2>2. h \in missing'
      BY <2>1
    <2> QED BY <2>1, <2>2, FetchAnswered
  <1>3. CASE FetchError
    <2>1. /\ worker = "fetch" /\ tasks # <<>> /\ tasks' = Tail(tasks)
          /\ markets' = markets
          /\ failed' = failed \cup {h} /\ missing' = missing \ {h}
          /\ UNCHANGED <<now, worker, stored, restarted>>
      BY <1>3 DEF FetchError
    <2>2. h \in failed'
      BY <2>1
    <2> QED BY <2>1, <2>2, FetchAnswered
  <1> QED BY <1>1, <1>2, <1>3

(* A transaction stores what the cycle found, or nothing of it; the cycle   *)
(* then keeps its answers for the second upsert or ends.                    *)
LEMMA UpsertKeeps ==
  ASSUME DiscoveryInv, NEW ok \in BOOLEAN, Upsert(ok) \/ MergeUpsert(ok)
  PROVE  DiscoveryInv'
  <1>1. /\ stored' = stored \/ stored' = stored \cup markets
        /\ \/ worker' = "merge" /\ markets' = markets
           \/ worker' = "idle" /\ markets' = {}
        /\ UNCHANGED <<now, tasks, missing, failed, restarted>>
    BY DEF Upsert, MergeUpsert, UpsertMarketsBatch, EndCycle, history
  <1>2. TypeOK'
    BY <1>1 DEF DiscoveryInv, TypeOK
  <1>3. SlugsListed'
    BY <1>1 DEF DiscoveryInv, SlugsListed
  <1>4. TasksAhead'
    BY <1>1 DEF TasksAhead
  <1>5. /\ Accounted \subseteq Accounted'
        /\ markets' # {} => Accounted \cup markets \subseteq Accounted' \cup markets'
        /\ stored' # stored => Accounted \cup markets \subseteq Accounted'
    BY <1>1 DEF Accounted
  <1>6. ASSUME NEW m \in markets'
        PROVE  Between(restarted, m) \subseteq Accounted' \cup markets'
    <2>1. m \in markets
      BY <1>1, <1>6
    <2> QED BY <1>5, <2>1 DEF DiscoveryInv, NothingSkipped
  <1>7. ASSUME NEW r \in Dated'
        PROVE  Between(restarted, r) \subseteq Accounted'
    <2>1. CASE r \in stored
      BY <1>5, <1>7, <2>1 DEF DiscoveryInv, NothingSkipped, Dated
    <2>2. CASE r \notin stored
      <3>1. r \in markets /\ stored' # stored
        BY <1>1, <1>7, <2>2 DEF Dated
      <3> QED BY <1>5, <3>1 DEF DiscoveryInv, NothingSkipped
    <2> QED BY <2>1, <2>2
  <1>8. NothingSkipped'
    <2>1. worker' # "fetch" /\ restarted' = restarted
      BY <1>1
    <2> HIDE DEF Between
    <2> QED BY <1>6, <1>7, <2>1 DEF NothingSkipped
  <1> QED BY <1>2, <1>3, <1>4, <1>8 DEF DiscoveryInv

(* The cycle ends or moves on, the process is restarted, time passes.       *)
LEMMA RestKeeps ==
  ASSUME DiscoveryInv, FetchesDone \/ Restart \/ Tick \/ UNCHANGED vars
  PROVE  DiscoveryInv'
  <1>1. /\ UNCHANGED <<stored, missing, failed, restarted>>
        /\ now' \in 0..MaxTime
        /\ markets' = markets \/ (markets' = {} /\ worker' # "fetch")
        /\ worker' = "idle" => markets' = {}
        /\ worker' \in {"idle", "fetch", "upsert", "merge"}
        /\ worker' = "fetch" => worker = "fetch" /\ tasks' = tasks
        /\ tasks' \in Seq(Int)
    <2>1. <<>> \in Seq(Int)
      BY EmptySeq
    <2>2. Tick => now' \in 0..MaxTime
      BY DiscoveryAssumption DEF DiscoveryInv, TypeOK, Tick
    <2>3. CASE FetchesDone
      BY <2>3 DEF DiscoveryInv, TypeOK, SlugsListed, FetchesDone, EndCycle, history
    <2>4. CASE Restart
      BY <2>1, <2>4 DEF DiscoveryInv, TypeOK, Restart, history
    <2>5. CASE Tick
      BY <2>2, <2>5 DEF DiscoveryInv, TypeOK, SlugsListed, Tick, history
    <2>6. CASE UNCHANGED vars
      BY <2>6 DEF DiscoveryInv, TypeOK, SlugsListed, vars, history
    <2> QED BY <2>3, <2>4, <2>5, <2>6
  <1>2. Dated' = Dated /\ Accounted' = Accounted
    BY <1>1 DEF Dated, Accounted
  <1>3. TypeOK'
    BY <1>1 DEF DiscoveryInv, TypeOK
  <1>4. SlugsListed'
    BY <1>1 DEF DiscoveryInv, SlugsListed
  <1>5. TasksAhead'
    BY <1>1, <1>2 DEF DiscoveryInv, TasksAhead
  <1>6. NothingSkipped'
    BY <1>1, <1>2 DEF DiscoveryInv, NothingSkipped
  <1> QED BY <1>3, <1>4, <1>5, <1>6 DEF DiscoveryInv

LEMMA DiscoveryStep ==
  FutureSlugCount >= 0 /\ DiscoveryInv /\ [Next]_vars => DiscoveryInv'
  <1> SUFFICES ASSUME FutureSlugCount >= 0, DiscoveryInv, [Next]_vars
               PROVE  DiscoveryInv'
    OBVIOUS
  <1>1. CASE StartCycle
    BY <1>1, StartFromAnchor, StartFromClock
  <1>2. CASE FetchFound \/ FetchMissing \/ FetchError
    BY <1>2, FetchKeeps
  <1>3. ASSUME NEW ok \in BOOLEAN, Upsert(ok) \/ MergeUpsert(ok)
        PROVE  DiscoveryInv'
    BY <1>3, UpsertKeeps
  <1>4. CASE FetchesDone \/ Restart \/ Tick \/ UNCHANGED vars
    BY <1>4, RestKeeps
  <1> QED BY <1>1, <1>2, <1>3, <1>4 DEF Next

-----------------------------------------------------------------------------
(* The theorems.  cfg.FutureSlugCount is not validated (config.go): with a  *)
(* negative value IsStale takes an anchor in the future for a stale one,    *)
(* and the worker asks again for windows it has stored.                     *)

LEMMA DiscoveryInvariant == FutureSlugCount >= 0 => (Spec => []DiscoveryInv)
  <1> SUFFICES ASSUME FutureSlugCount >= 0 PROVE Spec => []DiscoveryInv
    OBVIOUS
  <1>1. DiscoveryInv /\ [Next]_vars => DiscoveryInv'
    BY DiscoveryStep
  <1> QED BY <1>1, DiscoveryInit, PTL DEF Spec

(* The worker's state stays within its types and bounds.                    *)
THEOREM DiscoveryTypeCorrect == FutureSlugCount >= 0 => (Spec => []TypeOK)
  <1> SUFFICES ASSUME FutureSlugCount >= 0 PROVE Spec => []TypeOK
    OBVIOUS
  <1>1. Spec => []DiscoveryInv
    BY DiscoveryInvariant
  <1>2. DiscoveryInv => TypeOK
    BY DEF DiscoveryInv
  <1> QED BY <1>1, <1>2, PTL

(* A cycle asks for no window that is stored with a start date, however     *)
(* long the windows are, however many slugs a cycle asks for, and whatever  *)
(* Gamma and the database did before.                                       *)
THEOREM AsksForNew == FutureSlugCount >= 0 => (Spec => []AsksOnlyForNew)
  <1> SUFFICES ASSUME FutureSlugCount >= 0 PROVE Spec => []AsksOnlyForNew
    OBVIOUS
  <1>1. Spec => []DiscoveryInv
    BY DiscoveryInvariant
  <1>2. DiscoveryInv => AsksOnlyForNew
    <2> SUFFICES ASSUME DiscoveryInv, worker = "fetch", NEW i \in DOMAIN tasks,
                        tasks[i] \in stored
                 PROVE  tasks[i] \in Undated
      BY DEF AsksOnlyForNew
    <2>1. tasks[i] \notin Dated
      <3>1. tasks[i] \in Int /\ \A r \in Dated : r < tasks[i]
        BY ElementOfSeq, LenProperties DEF DiscoveryInv, TypeOK, TasksAhead
      <3> QED BY <3>1
    <2> QED BY <2>1 DEF Dated
  <1> QED BY <1>1, <1>2, PTL

(* A window that began after slugs were last generated from the clock is    *)
(* passed without being stored only when Gamma had no market to give for    *)
(* it: cycles leave no gap between the windows they ask for.                *)
THEOREM NoneSkipped == FutureSlugCount >= 0 => (Spec => []PassedOnlyIfUnanswered)
  <1> SUFFICES ASSUME FutureSlugCount >= 0 PROVE Spec => []PassedOnlyIfUnanswered
    OBVIOUS
  <1>1. Spec => []DiscoveryInv
    BY DiscoveryInvariant
  <1>2. DiscoveryInv => PassedOnlyIfUnanswered
    <2> SUFFICES ASSUME DiscoveryInv, Dated # {},
                        NEW k \in 0..(LatestSlug \div Dur),
                        restarted < k * Dur, k * Dur \notin stored
                 PROVE  k * Dur \in missing \cup failed
      BY DEF PassedOnlyIfUnanswered
    <2>1. LatestSlug \in Dated /\ LatestSlug \in stored
      BY AnchorFacts DEF Dated
    <2>2. IsWindow(LatestSlug) /\ Dur \in Nat \ {0}
      BY <2>1, DiscoveryAssumption DEF DiscoveryInv, SlugsListed
    <2>3. PICK j \in Int : LatestSlug = j * Dur
      BY <2>2 DEF IsWindow
    <2>4. (j * Dur) \div Dur = j
      BY <2>2, WholeQuotient
    <2>5. k \in Int /\ 0 <= j - k
      BY <2>3, <2>4
    <2>6. (j - k) * Dur >= 0 /\ (j - k) * Dur = j * Dur - k * Dur
      BY <2>2, <2>5
    <2>7. k * Dur \in Int /\ k * Dur <= LatestSlug
      BY <2>2, <2>3, <2>5, <2>6
    <2>8. IsWindow(k * Dur)
      BY <2>5 DEF IsWindow
    <2>9. k * Dur \in Between(restarted, LatestSlug)
      BY <2>1, <2>7, <2>8, <2>3 DEF Between
    <2> QED BY <2>1, <2>9 DEF DiscoveryInv, NothingSkipped, Accounted
  <1> QED BY <1>1, <1>2, PTL

(* A cycle asks for a window that has yet to start, provided it asks for    *)
(* any: cfg.InitialSlugCount and cfg.FutureSlugCount are positive.          *)
THEOREM DiscoveryLeads ==
  FutureSlugCount > 0 /\ InitialSlugCount > 0 => (Spec => AsksAhead)
  <1> SUFFICES ASSUME FutureSlugCount > 0, InitialSlugCount > 0
               PROVE  Spec => AsksAhead
    OBVIOUS
  <1>1. FutureSlugCount \in Nat \ {0} /\ InitialSlugCount \in Nat \ {0} /\ Dur \in Nat \ {0}
    BY DiscoveryAssumption
  <1>2. Spec => []DiscoveryInv
    BY <1>1, DiscoveryInvariant
  <1>3. ASSUME DiscoveryInv, [Next]_vars, CycleStarts
        PROVE  \E i \in DOMAIN tasks' : tasks'[i] >= now
    <2>1. StartCycle /\ now \in Nat
      BY <1>3, DiscoveryAssumption
         DEF Next, CycleStarts, FetchFound, FetchMissing, FetchError, FetchesDone,
             EndCycle, Upsert, MergeUpsert, Restart, Tick, vars, DiscoveryInv, TypeOK
    <2>2. CASE FromAnchor
      <3>1. /\ LatestSlug \in Int
            /\ ~(LatestSlug < now - FutureSlugCount * Dur)
        BY <1>3, <2>2, AnchorFacts DEF FromAnchor, IsStale, DiscoveryInv, TypeOK, Dated
      <3>2. /\ tasks' = [i \in 1..FutureSlugCount |-> LatestSlug + i * Dur]
            /\ FutureSlugCount \in 1..FutureSlugCount
        BY <1>1, <2>1, <2>2 DEF StartCycle, NextSlugs, GenerateNextSlugs
      <3>3. LatestSlug + FutureSlugCount * Dur >= now
        BY <1>1, <2>1, <3>1
      <3> QED BY <3>2, <3>3
    <2>3. CASE ~FromAnchor
      <3>1. /\ tasks' = [i \in 1..InitialSlugCount |-> CurrentSlug(now, Dur) + i * Dur]
            /\ 1 \in 1..InitialSlugCount
        BY <1>1, <2>1, <2>3 DEF StartCycle, InitialSlugs, GenerateInitialSlugs
      <3>2. CurrentSlug(now, Dur) \in Nat /\ now < CurrentSlug(now, Dur) + Dur
        BY <2>1, WindowFacts
      <3>3. CurrentSlug(now, Dur) + 1 * Dur >= now
        <4> HIDE DEF CurrentSlug
        <4> QED BY <1>1, <2>1, <3>2
      <3> QED BY <3>1, <3>3
    <2> QED BY <2>2, <2>3
  <1>4. DiscoveryInv /\ [Next]_vars =>
          [CycleStarts => \E i \in DOMAIN tasks' : tasks'[i] >= now]_vars
    BY <1>3
  <1> QED BY <1>2, <1>4, PTL DEF Spec, AsksAhead
=============================================================================
