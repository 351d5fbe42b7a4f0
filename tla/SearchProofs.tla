------------------------------ MODULE SearchProofs ------------------------------
(***************************************************************************)
(* The two parts of a search, which share no state: the cache of rankings   *)
(* and the query a ranking is made from.                                    *)
(*                                                                          *)
(* Until Redis loses its keys (it may fail any call), the cache is never    *)
(* more than one ingest behind.  The invariant of SearchCache is            *)
(* not inductive: while an ingest is between its bump and its commit, what  *)
(* is stored under the new version must be up to date, for the commit to    *)
(* leave it only one behind; and the same is needed of the rankings that    *)
(* searches are about to store.                                             *)
(*                                                                          *)
(* The candidate query loses nothing near, the ranking puts what is closer  *)
(* first, and where no limit cuts a search the counts beside it agree with  *)
(* it: see the second part.                                                 *)
(***************************************************************************)
EXTENDS SearchCache, SearchQuery, FiniteSetTheorems, WellFoundedInduction, TLAPS

\* Old enough to be at most one ingest behind, whatever the running ingest does next.
Recent(g) ==
    /\ g + 1 >= generation
    /\ ingest = "bumped" => g >= generation

\* The bound on versions leaves room for the bump of an ingest that has begun.
RoomToBump == ingest = "upserted" => version < MaxVersion

\* Nothing refers to a version that has not been reached.
NoFutureVersion ==
    /\ \A v \in Versions : v > version => cache[v] = NoEntry
    /\ \A s \in Searchers : search[s].key <= version

CurrentIsRecent == cache[version] # NoEntry => Recent(cache[version])

PendingIsRecent ==
    \A s \in Searchers :
        search[s].at = "store" /\ search[s].key = version => Recent(search[s].payload)

\* A search that is looking its key up began no later than now ...
SinceIsPast == \A s \in Searchers : search[s].since <= generation

\* ... and what it may find is at most one ingest behind its beginning.
FindableIsRecent ==
    \A s \in Searchers :
        search[s].at = "lookup" /\ ~search[s].blind =>
            /\ cache[search[s].key] # NoEntry => cache[search[s].key] + 1 >= search[s].since
            /\ \A t \in Searchers :
                  search[t].at = "store" /\ search[t].key = search[s].key =>
                      search[t].payload + 1 >= search[s].since

AllRecent ==
    /\ NoFutureVersion
    /\ CurrentIsRecent
    /\ PendingIsRecent
    /\ SinceIsPast
    /\ FindableIsRecent

CacheIInv ==
    /\ TypeOK
    /\ RoomToBump
    /\ intact => AllRecent

-------------------------------------------------------------------------------
USE DEF Versions, RedisErrors, UnreadVersion, KeyToStore, NewVersion, MayExpire

\* Every initial state satisfies the invariant.
LEMMA InitEstablishes == CacheInit => CacheIInv
BY BoundsAssumption, NoEntryAssumption
   DEF CacheInit, CacheIInv, TypeOK, RoomToBump, AllRecent, NoFutureVersion, CurrentIsRecent,
       PendingIsRecent, SinceIsPast, FindableIsRecent, Recent, Search, Idle

\* Types are preserved; the only step that needs more is the bump, which needs its room.
LEMMA StepKeepsTypes ==
    ASSUME TypeOK, RoomToBump, [CacheNext]_cacheVars
    PROVE  TypeOK'
<1> USE BoundsAssumption, NoEntryAssumption DEF TypeOK, Search
<1>1. ASSUME NEW s \in Searchers, ComputeKey(s) PROVE TypeOK'
  <2>1. PICK failed \in BOOLEAN :
          search' = [search EXCEPT ![s] = [at      |-> "lookup",
                                           key     |-> IF failed THEN 0 ELSE version,
                                           blind   |-> failed,
                                           since   |-> generation,
                                           payload |-> 0]]
    BY <1>1 DEF ComputeKey
  <2> QED BY <1>1, <2>1 DEF ComputeKey
<1>2. ASSUME NEW s \in Searchers, AnswerFromCache(s) PROVE TypeOK'
  BY <1>2 DEF AnswerFromCache, Answered, Idle
<1>3. ASSUME NEW s \in Searchers, Miss(s) PROVE TypeOK'
  BY <1>3 DEF Miss
<1>4. ASSUME NEW s \in Searchers, MakeRanking(s) PROVE TypeOK'
  BY <1>4, ZenonT(40) DEF MakeRanking
<1>5. ASSUME NEW s \in Searchers, Store(s) PROVE TypeOK'
  BY <1>5 DEF Store, Answered, Idle
<1>6. CASE Ingest
  BY <1>6 DEF Ingest, Upsert, BumpDataVersion, CommitIngest, FailIngest, RoomToBump
<1>7. ASSUME NEW v \in Versions, ExpireEntry(v) PROVE TypeOK'
  BY <1>7 DEF ExpireEntry
<1>8. CASE Forget
  <2>1. cache' = cache \/ cache' = [v \in Versions |-> NoEntry]
    BY <1>8 DEF Forget
  <2>2. cache' \in [Versions -> Nat \cup {NoEntry}]
    BY <2>1
  <2>3. version' \in Versions
    <3>1. version' = 0
      BY <1>8 DEF Forget
    <3> QED
      BY <3>1
  <2>4. UNCHANGED <<generation, ingest, search>> /\ intact' = FALSE
    BY <1>8 DEF Forget
  <2> QED
    BY <2>2, <2>3, <2>4
<1>9. CASE UNCHANGED cacheVars
  BY <1>9 DEF cacheVars
<1> QED
  BY <1>1, <1>2, <1>3, <1>4, <1>5, <1>6, <1>7, <1>8, <1>9 DEF CacheNext, ServeSearch

\* An ingest that has begun keeps its room, even when the version falls back to 0.
LEMMA StepKeepsRoom ==
    ASSUME TypeOK, RoomToBump, [CacheNext]_cacheVars
    PROVE  RoomToBump'
<1> USE DEF RoomToBump, cacheVars
<1>1. CASE \E s \in Searchers : ServeSearch(s)
  BY <1>1 DEF ServeSearch, ComputeKey, AnswerFromCache, Miss, MakeRanking, Store
<1>2. CASE Ingest
  BY <1>2 DEF Ingest, Upsert, BumpDataVersion, CommitIngest, FailIngest
<1>3. CASE \E v \in Versions : ExpireEntry(v)
  BY <1>3 DEF ExpireEntry
<1>4. CASE Forget
  BY <1>4, BoundsAssumption DEF Forget, TypeOK
<1>5. CASE UNCHANGED cacheVars
  BY <1>5
<1> QED
  BY <1>1, <1>2, <1>3, <1>4, <1>5 DEF CacheNext

\* The rest of the invariant is preserved while Redis forgets nothing.
LEMMA StepKeepsRecency ==
    ASSUME TypeOK, RoomToBump, AllRecent, [CacheNext]_cacheVars, ~Forget
    PROVE  AllRecent'
<1> USE BoundsAssumption, NoEntryAssumption
    DEF AllRecent, RoomToBump, NoFutureVersion, CurrentIsRecent, PendingIsRecent,
        SinceIsPast, FindableIsRecent, Recent
<1>1. ASSUME NEW s \in Searchers, ComputeKey(s) PROVE AllRecent'
  BY <1>1 DEF ComputeKey, TypeOK, Search
<1>2. ASSUME NEW s \in Searchers, AnswerFromCache(s) PROVE AllRecent'
  BY <1>2 DEF AnswerFromCache, Answered, Idle, TypeOK, Search
<1>3. ASSUME NEW s \in Searchers, Miss(s) PROVE AllRecent'
  BY <1>3 DEF Miss, TypeOK, Search
<1>4. ASSUME NEW s \in Searchers, MakeRanking(s) PROVE AllRecent'
  <2>1. /\ search'[s].at = "store" /\ search'[s].payload = generation
        /\ search'[s].key = search[s].key /\ search'[s].since = search[s].since
        /\ search'[s].blind = search[s].blind
        /\ \A t \in Searchers \ {s} : search'[t] = search[t]
    BY <1>4 DEF MakeRanking, TypeOK, Search
  <2>2. UNCHANGED <<generation, version, cache, ingest>>
    BY <1>4 DEF MakeRanking
  <2>3. NoFutureVersion' /\ CurrentIsRecent' /\ SinceIsPast'
    BY <2>1, <2>2
  <2>4. PendingIsRecent'
    BY <2>1, <2>2 DEF TypeOK, Search
  <2>5. FindableIsRecent'
    <3> SUFFICES ASSUME NEW q \in Searchers,
                        search'[q].at = "lookup", ~search'[q].blind
                 PROVE  /\ cache'[search'[q].key] # NoEntry
                             => cache'[search'[q].key] + 1 >= search'[q].since
                        /\ \A t \in Searchers :
                              search'[t].at = "store" /\ search'[t].key = search'[q].key
                                => search'[t].payload + 1 >= search'[q].since
      OBVIOUS
    <3>1. q # s /\ search'[q] = search[q]
      BY <2>1
    <3>2. generation \in Nat /\ search[q].since \in Nat /\ search[q].since <= generation
      BY DEF TypeOK, Search
    <3>3. generation + 1 >= search[q].since
      BY <3>2
    <3> QED BY <2>1, <2>2, <3>1, <3>3
  <2> QED BY <2>3, <2>4, <2>5
<1>5. ASSUME NEW s \in Searchers, Store(s) PROVE AllRecent'
  <2>1. search'[s] = Idle /\ \A t \in Searchers \ {s} : search'[t] = search[t]
    BY <1>5 DEF Store, Answered, TypeOK
  <2>2. UNCHANGED <<generation, version, ingest>> /\ search[s].at = "store"
    BY <1>5 DEF Store
  <2>3. \/ cache' = cache
        \/ cache' = [cache EXCEPT ![search[s].key] = search[s].payload]
    BY <1>5 DEF Store
  <2>4. search[s].key \in Versions /\ search[s].payload \in Nat
    BY DEF TypeOK, Search
  <2>5. SinceIsPast' /\ PendingIsRecent'
    <3>1. SinceIsPast'
      <4>1. search'[s].since = 0 /\ \A q \in Searchers \ {s} : search'[q] = search[q]
        BY <2>1 DEF Idle
      <4>2. generation \in Nat
        BY DEF TypeOK
      <4> QED BY <2>2, <4>1, <4>2
    <3>2. PendingIsRecent'
      BY <2>1, <2>2 DEF Idle
    <3> QED BY <3>1, <3>2
  <2>6. NoFutureVersion'
    BY <2>1, <2>2, <2>3, <2>4 DEF Idle, TypeOK, Search
  <2>7. CurrentIsRecent'
    BY <2>2, <2>3, <2>4 DEF TypeOK
  <2>8. FindableIsRecent'
    <3> SUFFICES ASSUME NEW q \in Searchers,
                        search'[q].at = "lookup", ~search'[q].blind
                 PROVE  /\ cache'[search'[q].key] # NoEntry
                             => cache'[search'[q].key] + 1 >= search'[q].since
                        /\ \A t \in Searchers :
                              search'[t].at = "store" /\ search'[t].key = search'[q].key
                                => search'[t].payload + 1 >= search'[q].since
      OBVIOUS
    <3>1. q # s /\ search'[q] = search[q]
      BY <2>1 DEF Idle
    <3>2. search[q].key \in Versions
      BY DEF TypeOK, Search
    <3>3. cache'[search[q].key] = cache[search[q].key]
            \/ (cache'[search[q].key] = search[s].payload /\ search[s].key = search[q].key)
      BY <2>3, <2>4, <3>2 DEF TypeOK
    <3>4. search[s].key = search[q].key => search[s].payload + 1 >= search[q].since
      BY <2>2, <3>1
    <3>5. \A t \in Searchers : search'[t].at = "store" => search'[t] = search[t]
      BY <2>1 DEF Idle
    <3> QED BY <3>1, <3>3, <3>4, <3>5
  <2> QED BY <2>5, <2>6, <2>7, <2>8
<1>6. CASE Ingest
  <2>1. CASE Upsert          BY <2>1 DEF Upsert, TypeOK, Search
  <2>2. CASE BumpDataVersion BY <2>2 DEF BumpDataVersion, TypeOK, Search
  <2>3. CASE CommitIngest    BY <2>3 DEF CommitIngest, TypeOK, Search
  <2>4. CASE FailIngest      BY <2>4 DEF FailIngest, TypeOK, Search
  <2> QED BY <1>6, <2>1, <2>2, <2>3, <2>4 DEF Ingest
<1>7. ASSUME NEW v \in Versions, ExpireEntry(v) PROVE AllRecent'
  BY <1>7 DEF ExpireEntry, TypeOK, Search
<1>8. CASE UNCHANGED cacheVars
  BY <1>8 DEF cacheVars, TypeOK
<1> QED
  BY <1>1, <1>2, <1>3, <1>4, <1>5, <1>6, <1>7, <1>8 DEF CacheNext, ServeSearch

\* What Redis has lost it never gets back.
LEMMA IntactBefore ==
    ASSUME [CacheNext]_cacheVars, intact'
    PROVE  intact /\ ~Forget
<1>1. ~Forget
  BY DEF Forget
<1>2. intact' = intact
  BY <1>1 DEF CacheNext, ServeSearch, ComputeKey, AnswerFromCache, Miss, MakeRanking, Store, Ingest,
              Upsert, BumpDataVersion, CommitIngest, FailIngest, ExpireEntry, cacheVars
<1> QED
  BY <1>1, <1>2

\* The three together.
LEMMA StepKeepsInvariant == CacheIInv /\ [CacheNext]_cacheVars => CacheIInv'
BY StepKeepsTypes, StepKeepsRoom, StepKeepsRecency, IntactBefore DEF CacheIInv

\* The invariant of every behaviour, whatever Redis does.
THEOREM Recency == CacheSpec => []CacheIInv
BY InitEstablishes, StepKeepsInvariant, PTL DEF CacheSpec

-------------------------------------------------------------------------------
\* The types hold whatever Redis does.
THEOREM TypeCorrect == CacheSpec => []TypeOK
<1>1. CacheIInv => TypeOK
  BY DEF CacheIInv
<1> QED
  BY <1>1, Recency, PTL

\* Until Redis loses its keys, what the current version points at is never more than one
\* ingest behind, for any number of searches, ingests and failed calls.
THEOREM CacheIsRecent == CacheSpec => []CurrentEntryAtMostOneBehind
<1>1. CacheIInv => CurrentEntryAtMostOneBehind
  BY DEF CacheIInv, AllRecent, CurrentIsRecent, Recent, CurrentEntryAtMostOneBehind
<1> QED
  BY <1>1, Recency, PTL

\* And no answer from the cache is more than one ingest behind its question.
THEOREM AnswersAreRecent == CacheSpec => AnswerAtMostOneBehind
<1>1. CacheIInv /\ [CacheNext]_cacheVars =>
        [\A s \in Searchers :
            intact /\ AnswerFromCache(s) /\ ~search[s].blind =>
                cache[search[s].key] + 1 >= search[s].since]_cacheVars
  BY DEF CacheIInv, AllRecent, FindableIsRecent, AnswerFromCache
<1> QED
  BY <1>1, Recency, PTL DEF CacheSpec, AnswerAtMostOneBehind

-------------------------------------------------------------------------------
(***************************************************************************)
(* The candidate query drops nothing that would still score.  The decay of *)
(* the ranker and the bounds of the query are two roundings of the same    *)
(* tolerance; they agree for bounds that are positive and in order, which  *)
(* is what the checks of an intent leave, whoever made it.                 *)
(***************************************************************************)

\* The columns of a listing.
LEMMA RowOf ==
    ASSUME NEW id \in DOMAIN Listings
    PROVE  /\ {"km", "year", "deal", "posted", "city", "price", "place", "brand", "model", "gearbox"}
                \subseteq DOMAIN Listings[id]
           /\ {Listings[id].price, Listings[id].km, Listings[id].year,
               Listings[id].deal, Listings[id].posted} \subseteq Number
           /\ TrustedPrice(Listings[id]) \in Number
BY SearchAssumption DEF InputsOK, TableOK, ListingOK, TrustedPrice, Number

\* A quotient below a whole number is of a dividend below its multiple.
LEMMA QuotientBelow ==
    ASSUME NEW a \in Int, NEW d \in Nat \ {0}, NEW m \in Int, (a \div d) < m
    PROVE  a < m * d
<1> DEFINE q == a \div d
<1>1. q \in Int /\ a = d * q + (a % d) /\ (a % d) \in 0 .. (d - 1)
  OBVIOUS
<1>2. q + 1 <= m
  BY <1>1
<1> HIDE DEF q
<1>3. d * (q + 1) <= d * m
  BY <1>1, <1>2
<1> QED
  BY <1>1, <1>3

\* Of nought and a number the larger is one of the two.
LEMMA LargestOfTwo == \A x \in Int : Largest({0, x}) \in {0, x}
<1> SUFFICES ASSUME NEW x \in Int PROVE Largest({0, x}) \in {0, x}
  OBVIOUS
<1>1. \E z \in {0, x} : \A w \in {0, x} : w <= z
  <2>1. CASE x <= 0
    BY <2>1
  <2>2. CASE x > 0
    BY <2>2
  <2> QED
    BY <2>1, <2>2
<1> QED
  BY <1>1 DEF Largest

\* A linear decay is a number, and above nought only within the tolerance.
LEMMA DecayWithin ==
    ASSUME NEW gap \in Int, NEW num \in Int, NEW den \in Nat \ {0}
    PROVE  /\ LinearDecay(gap, num, den) \in Int
           /\ LinearDecay(gap, num, den) > 0 => gap * den < num
<1> DEFINE q == ((1000 * gap) * den) \div num
<1>1. CASE num <= 0
  BY <1>1 DEF LinearDecay, MISS
<1>2. CASE num > 0
  <2>1. q \in Int
    BY <1>2
  <2>2. LinearDecay(gap, num, den) =
          IF gap > 0 /\ 1000 - q = 1000 THEN 999 ELSE Largest({0, 1000 - q})
    BY <1>2 DEF LinearDecay, MISS, EXACT
  <2>3. q < 1000 => (1000 * gap) * den < 1000 * num
    BY <1>2, <2>1, QuotientBelow
  <2> HIDE DEF q
  <2>4. Largest({0, 1000 - q}) \in {0, 1000 - q}
    <3>1. 1000 - q \in Int
      BY <2>1
    <3> QED
      BY <3>1, LargestOfTwo
  <2>5. LinearDecay(gap, num, den) > 0 => q < 1000
    BY <2>1, <2>2, <2>4
  <2>6. (1000 * gap) * den = 1000 * (gap * den)
    OBVIOUS
  <2> QED
    BY <2>1, <2>2, <2>3, <2>4, <2>5, <2>6, <1>2
<1> QED
  BY <1>1, <1>2

\* A percentage of a bound is at most half a unit from the exact one.
LEMMA PercentWithin ==
    ASSUME NEW b \in Int, NEW p \in Int
    PROVE  /\ Percent(b, p) \in Int
           /\ 100 * Percent(b, p) <= b * p + 50
           /\ 100 * Percent(b, p) >= b * p - 50
<1> DEFINE x == b * p
           f == x \div 100
           r == x % 100
<1>1. x \in Int
  OBVIOUS
<1>2. f \in Int /\ r \in 0 .. 99 /\ x = 100 * f + r
  BY <1>1
<1>3. Percent(b, p) =
        IF 2 * r > 100 \/ (2 * r = 100 /\ f % 2 = 1) THEN f + 1 ELSE f
  BY DEF Percent
<1> HIDE DEF f, r, x
<1>4. x = b * p
  BY DEF x
<1> QED
  BY <1>1, <1>2, <1>3, <1>4

-------------------------------------------------------------------------------
(***************************************************************************)
(* One criterion: what still scores is within the widened bounds.          *)
(***************************************************************************)
\* Two bounds in their order, and a value a row may have.
Criterion(low, high, value) ==
    /\ {low, high, value} \subseteq Number
    /\ low # NULL /\ high # NULL => low <= high

Near(score) == score = NULL \/ score.closeness > MISS

\* The ranker's score of a criterion whose slacks are numLow / den and numHigh / den.
RangeOf(low, high, value, numLow, numHigh, den, label) ==
    RangeScore(low, high, value, LAMBDA gap : LinearDecay(gap, numLow, den),
                                       LAMBDA gap : LinearDecay(gap, numHigh, den), label)

\* A value inside its bounds, or less than the slack outside the one it missed.
WithinReach(low, high, value, numLow, numHigh, den) ==
    value # NULL =>
        /\ high # NULL => value <= high \/ (value - high) * den < numHigh
        /\ low # NULL => value >= low \/ (low - value) * den < numLow

\* What is not a miss is within reach.
LEMMA NearIsWithinReach ==
    ASSUME NEW low, NEW high, NEW value, Criterion(low, high, value),
           NEW numLow, NEW numHigh, NEW den \in Nat \ {0}, NEW label,
           low # NULL => numLow \in Int, high # NULL => numHigh \in Int,
           Near(RangeOf(low, high, value, numLow, numHigh, den, label))
    PROVE  WithinReach(low, high, value, numLow, numHigh, den)
<1> SUFFICES ASSUME value # NULL
             PROVE  /\ high # NULL => value <= high \/ (value - high) * den < numHigh
                    /\ low # NULL => value >= low \/ (low - value) * den < numLow
  BY DEF WithinReach
<1> DEFINE S == RangeOf(low, high, value, numLow, numHigh, den, label)
<1>1. NULL \notin Int /\ NULL \notin [closeness : Int, label : BOOLEAN]
  BY SearchAssumption DEF InputsOK
<1>2. value \in Int /\ (low # NULL => low \in Int) /\ (high # NULL => high \in Int)
  BY DEF Criterion, Number
<1>3. CASE high # NULL /\ value > high
  <2> DEFINE c == LinearDecay(value - high, numHigh, den)
  <2>1. S = [closeness |-> c, label |-> TRUE]
    BY <1>3, <1>2 DEF RangeOf, RangeScore, Score
  <2>2. value - high \in Int /\ numHigh \in Int
    BY <1>2, <1>3
  <2>3. c \in Int /\ (c > 0 => (value - high) * den < numHigh)
    BY <2>2, DecayWithin
  <2> HIDE DEF c
  <2> HIDE DEF S
  <2>4. S # NULL /\ S.closeness = c
    <3>1. S \in [closeness : Int, label : BOOLEAN]
      BY <2>1, <2>3
    <3> QED
      BY <1>1, <2>1, <3>1
  <2>5. c > 0
    BY <2>4 DEF S, Near, MISS
  <2> QED
    BY <1>2, <1>3, <2>3, <2>5 DEF Criterion
<1>4. CASE ~(high # NULL /\ value > high) /\ low # NULL /\ value < low
  <2> DEFINE c == LinearDecay(low - value, numLow, den)
  <2>1. S = [closeness |-> c, label |-> TRUE]
    BY <1>4, <1>2 DEF RangeOf, RangeScore, Score
  <2>2. low - value \in Int /\ numLow \in Int
    BY <1>2, <1>4
  <2>3. c \in Int /\ (c > 0 => (low - value) * den < numLow)
    BY <2>2, DecayWithin
  <2> HIDE DEF c
  <2> HIDE DEF S
  <2>4. S # NULL /\ S.closeness = c
    <3>1. S \in [closeness : Int, label : BOOLEAN]
      BY <2>1, <2>3
    <3> QED
      BY <1>1, <2>1, <3>1
  <2>5. c > 0
    BY <2>4 DEF S, Near, MISS
  <2> QED
    BY <1>2, <1>4, <2>3, <2>5
<1>5. CASE ~(high # NULL /\ value > high) /\ ~(low # NULL /\ value < low)
  BY <1>2, <1>5
<1> QED
  BY <1>3, <1>4, <1>5

\* The three criteria of the ranker that the candidate query bounds: the price, ...
LEMMA PriceNear ==
    ASSUME NEW asked, NEW row,
           Criterion(asked.priceMin, asked.priceMax, row.price), Near(PriceScore(asked, row))
    PROVE  WithinReach(asked.priceMin, asked.priceMax, row.price,
                       asked.priceMin * 25, asked.priceMax * 25, 100)
<1>1. /\ 100 \in Nat \ {0}
      /\ asked.priceMin # NULL => asked.priceMin * 25 \in Int
      /\ asked.priceMax # NULL => asked.priceMax * 25 \in Int
  BY DEF Criterion, Number
<1>2. PriceScore(asked, row) =
        RangeOf(asked.priceMin, asked.priceMax, row.price,
                asked.priceMin * 25, asked.priceMax * 25, 100, TRUE)
  BY DEF PriceScore, PRICE_TOLERANCE, RangeOf
<1> QED
  BY <1>1, <1>2, NearIsWithinReach, Zenon

\* Kilometres, whose slack is half the bound ...
LEMMA KmNear ==
    ASSUME NEW asked, NEW row,
           Criterion(asked.kmMin, asked.kmMax, row.km), Near(KmScore(asked, row))
    PROVE  WithinReach(asked.kmMin, asked.kmMax, row.km, asked.kmMin * 50, asked.kmMax * 50, 100)
<1>1. /\ 100 \in Nat \ {0}
      /\ asked.kmMin # NULL => asked.kmMin * 50 \in Int
      /\ asked.kmMax # NULL => asked.kmMax * 50 \in Int
  BY DEF Criterion, Number
<1>2. KmScore(asked, row) =
        RangeOf(asked.kmMin, asked.kmMax, row.km, asked.kmMin * 50, asked.kmMax * 50, 100, TRUE)
  BY DEF KmScore, KM_TOLERANCE, RangeOf
<1> QED
  BY <1>1, <1>2, NearIsWithinReach, Zenon

\* ... and years, whose slack is five of them.
LEMMA YearNear ==
    ASSUME NEW asked, NEW row,
           Criterion(asked.yearMin, asked.yearMax, row.year), Near(YearScore(asked, row))
    PROVE  WithinReach(asked.yearMin, asked.yearMax, row.year, 5, 5, 1)
<1>1. YearScore(asked, row) =
        RangeOf(asked.yearMin, asked.yearMax, row.year, 5, 5, 1, FALSE)
  BY DEF YearScore, YEAR_TOLERANCE, RangeOf
<1>2. 5 \in Int /\ 1 \in Nat \ {0}
  OBVIOUS
<1> QED
  BY <1>1, <1>2, NearIsWithinReach, Zenon

\* Widened by the percentage that ends the decay, bounds in their order lose no value
\* within reach: the rounding is at most half a unit, and a value is a whole number.
LEMMA WideningKeeps ==
    ASSUME NEW low, NEW high, NEW value, Criterion(low, high, value),
           low # NULL => low > 0, high # NULL => high > 0, NEW slack \in {25, 50},
           WithinReach(low, high, value, low * slack, high * slack, 100)
    PROVE  Within(value, Widened(low, 100 - slack), Widened(high, 100 + slack))
<1> SUFFICES ASSUME value # NULL
             PROVE  /\ low # NULL => value >= Percent(low, 100 - slack)
                    /\ high # NULL => value <= Percent(high, 100 + slack)
  BY DEF Within, Widened
<1>1. value \in Int /\ (low # NULL => low \in Int) /\ (high # NULL => high \in Int)
  BY DEF Criterion, Number
<1>2. ASSUME low # NULL PROVE value >= Percent(low, 100 - slack)
  <2>1. low \in Int /\ 100 - slack \in Int /\ low > 0
    BY <1>1, <1>2
  <2>2. /\ Percent(low, 100 - slack) \in Int
        /\ 100 * Percent(low, 100 - slack) <= low * (100 - slack) + 50
    BY <2>1, PercentWithin
  <2>3. value >= low \/ (low - value) * 100 < low * slack
    BY <1>2 DEF WithinReach
  <2> QED
    BY <1>1, <2>1, <2>2, <2>3
<1>3. ASSUME high # NULL PROVE value <= Percent(high, 100 + slack)
  <2>1. high \in Int /\ 100 + slack \in Int /\ high > 0
    BY <1>1, <1>3
  <2>2. /\ Percent(high, 100 + slack) \in Int
        /\ 100 * Percent(high, 100 + slack) >= high * (100 + slack) - 50
    BY <2>1, PercentWithin
  <2>3. value <= high \/ (value - high) * 100 < high * slack
    BY <1>3 DEF WithinReach
  <2> QED
    BY <1>1, <2>1, <2>2, <2>3
<1> QED
  BY <1>2, <1>3

\* So with the years, which are shifted.
LEMMA ShiftingKeeps ==
    ASSUME NEW low, NEW high, NEW value, Criterion(low, high, value),
           WithinReach(low, high, value, 5, 5, 1)
    PROVE  Within(value, Shifted(low, -5), Shifted(high, 5))
BY SearchAssumption DEF Criterion, Number, WithinReach, Within, Shifted, InputsOK

-------------------------------------------------------------------------------
(***************************************************************************)
(* The candidate query: its bounds are the widened bounds of the intent.   *)
(***************************************************************************)
\* A row inside the three pairs of bounds of a filter.
InsideBounds(row, f) ==
    /\ Within(TrustedPrice(row), f.priceFloor, f.priceCeiling)
    /\ Within(row.km, f.kmFloor, f.kmCeiling)
    /\ Within(row.year, f.yearFloor, f.yearCeiling)

\* The six bounds of the filter (the tolerances are the ranker's).
LEMMA RailsOf ==
    ASSUME NEW i
    PROVE  /\ GuardRails(i).priceFloor = Widened(i.priceMin, 75)
           /\ GuardRails(i).priceCeiling = Widened(i.priceMax, 125)
           /\ GuardRails(i).kmFloor = Widened(i.kmMin, 50)
           /\ GuardRails(i).kmCeiling = Widened(i.kmMax, 150)
           /\ GuardRails(i).yearFloor = Shifted(i.yearMin, -5)
           /\ GuardRails(i).yearCeiling = Shifted(i.yearMax, 5)
BY DEF GuardRails, PRICE_TOLERANCE, KM_TOLERANCE, YEAR_TOLERANCE

\* Without its bounds the filter asks the same of everything else.
LEMMA OtherConditionsUnbounded ==
    ASSUME NEW i, NEW row, Conditions(row, Unbounded(GuardRails(i))),
           InsideBounds(row, GuardRails(i))
    PROVE  Conditions(row, GuardRails(i))
<1> DEFINE f == GuardRails(i)
           u == Unbounded(f)
<1>1. \A x \in {"category", "brands", "text", "sources", "priceTypes", "documents", "onlyBelow"} :
        u[x] = f[x]
  <2>1. {"category", "brands", "text", "sources", "priceTypes", "documents", "onlyBelow"}
          \subseteq DOMAIN f
    BY DEF GuardRails
  <2> HIDE DEF f
  <2> QED
    BY <2>1 DEF Unbounded
<1>2. /\ u.category = f.category /\ u.brands = f.brands /\ u.text = f.text
      /\ u.sources = f.sources /\ u.priceTypes = f.priceTypes /\ u.documents = f.documents
      /\ u.onlyBelow = f.onlyBelow
  BY <1>1
<1>3. Conditions(row, u)
  OBVIOUS
<1> HIDE DEF f, u
<1> QED
  BY <1>2, <1>3 DEF f, Conditions, InsideBounds

\* The ranker is asked for the bounds the user stated ...
LEMMA AskedOf ==
    ASSUME NEW i
    PROVE  /\ RankingQuery(i).priceMin = i.priceMin /\ RankingQuery(i).priceMax = i.priceMax
           /\ RankingQuery(i).kmMin = i.kmMin /\ RankingQuery(i).kmMax = i.kmMax
           /\ RankingQuery(i).yearMin = i.yearMin /\ RankingQuery(i).yearMax = i.yearMax
BY DEF RankingQuery

\* ... and sees the numbers the filter sees, the suspect price hidden from both.
LEMMA CandidateOf ==
    ASSUME NEW id \in DOMAIN Listings, NEW text
    PROVE  /\ Candidate(id, text).price = TrustedPrice(Listings[id])
           /\ Candidate(id, text).km = Listings[id].km
           /\ Candidate(id, text).year = Listings[id].year
BY RowOf DEF Candidate, Over

\* For an intent that passed its checks, the three pairs of bounds and a listing's numbers.
LEMMA CriteriaOf ==
    ASSUME NEW i, BoundsOK(i), CheckRanges(i), NEW id \in DOMAIN Listings
    PROVE  /\ Criterion(i.priceMin, i.priceMax, TrustedPrice(Listings[id]))
           /\ Criterion(i.kmMin, i.kmMax, Listings[id].km)
           /\ Criterion(i.yearMin, i.yearMax, Listings[id].year)
<1> DEFINE price == TrustedPrice(Listings[id])
<1>1. {price, Listings[id].km, Listings[id].year} \subseteq Number
  BY RowOf
<1>2. {i.priceMin, i.priceMax, i.kmMin, i.kmMax, i.yearMin, i.yearMax} \subseteq Number
  BY DEF BoundsOK, Bounds
<1> HIDE DEF price
<1> QED
  BY <1>1, <1>2 DEF price, Criterion, CheckRanges, Ordered

\* A listing within reach of all three is inside the widened ones.
LEMMA ReachIsInside ==
    ASSUME NEW i, BoundsOK(i), CheckRanges(i), NEW id \in DOMAIN Listings,
           NEW price, price = TrustedPrice(Listings[id]),
           WithinReach(i.priceMin, i.priceMax, price, i.priceMin * 25, i.priceMax * 25, 100),
           WithinReach(i.kmMin, i.kmMax, Listings[id].km, i.kmMin * 50, i.kmMax * 50, 100),
           WithinReach(i.yearMin, i.yearMax, Listings[id].year, 5, 5, 1)
    PROVE  InsideBounds(Listings[id], GuardRails(i))
<1>1. /\ Criterion(i.priceMin, i.priceMax, price)
      /\ Criterion(i.kmMin, i.kmMax, Listings[id].km)
      /\ Criterion(i.yearMin, i.yearMax, Listings[id].year)
  BY CriteriaOf
<1>2. \A bound \in {i.priceMin, i.priceMax, i.kmMin, i.kmMax} : bound # NULL => bound > 0
  BY DEF CheckRanges
<1>3. Within(price, Widened(i.priceMin, 75), Widened(i.priceMax, 125))
  <2>1. 25 \in {25, 50} /\ 100 - 25 = 75 /\ 100 + 25 = 125
    OBVIOUS
  <2>2. /\ i.priceMin # NULL => i.priceMin > 0
        /\ i.priceMax # NULL => i.priceMax > 0
    BY <1>2
  <2>3. Within(price, Widened(i.priceMin, 100 - 25), Widened(i.priceMax, 100 + 25))
    BY <1>1, <2>1, <2>2, WideningKeeps
  <2> QED
    BY <2>1, <2>3
<1>4. Within(Listings[id].km, Widened(i.kmMin, 50), Widened(i.kmMax, 150))
  <2>1. 50 \in {25, 50} /\ 100 - 50 = 50 /\ 100 + 50 = 150
    OBVIOUS
  <2>2. /\ i.kmMin # NULL => i.kmMin > 0
        /\ i.kmMax # NULL => i.kmMax > 0
    BY <1>2
  <2>3. Within(Listings[id].km, Widened(i.kmMin, 100 - 50), Widened(i.kmMax, 100 + 50))
    BY <1>1, <2>1, <2>2, WideningKeeps
  <2> QED
    BY <2>1, <2>3
<1>5. Within(Listings[id].year, Shifted(i.yearMin, -5), Shifted(i.yearMax, 5))
  BY <1>1, ShiftingKeeps
<1> QED
  BY <1>3, <1>4, <1>5, RailsOf DEF InsideBounds

\* So one that is near in all three is inside them all.
LEMMA NothingNearIsLost ==
    ASSUME NEW i, BoundsOK(i), CheckRanges(i), NEW id \in DOMAIN Listings, NEW text,
           NEW scores, scores = Scores(RankingQuery(i), Candidate(id, text)),
           \A c \in {"price", "km", "year"} : Near(scores[c])
    PROVE  InsideBounds(Listings[id], GuardRails(i))
<1> DEFINE asked == RankingQuery(i)
           row == Candidate(id, text)
           price == TrustedPrice(Listings[id])
<1>1. /\ Near(PriceScore(asked, row)) /\ Near(KmScore(asked, row))
      /\ Near(YearScore(asked, row))
  BY DEF Scores
<1>2. /\ row.price = price /\ row.km = Listings[id].km /\ row.year = Listings[id].year
      /\ asked.priceMin = i.priceMin /\ asked.priceMax = i.priceMax
      /\ asked.kmMin = i.kmMin /\ asked.kmMax = i.kmMax
      /\ asked.yearMin = i.yearMin /\ asked.yearMax = i.yearMax
  BY AskedOf, CandidateOf
<1>3. /\ Criterion(i.priceMin, i.priceMax, price)
      /\ Criterion(i.kmMin, i.kmMax, Listings[id].km)
      /\ Criterion(i.yearMin, i.yearMax, Listings[id].year)
  BY CriteriaOf
<1> HIDE DEF asked, row, price
<1>4. WithinReach(i.priceMin, i.priceMax, price, i.priceMin * 25, i.priceMax * 25, 100)
  BY <1>1, <1>2, <1>3, PriceNear
<1>5. WithinReach(i.kmMin, i.kmMax, Listings[id].km, i.kmMin * 50, i.kmMax * 50, 100)
  BY <1>1, <1>2, <1>3, KmNear
<1>6. WithinReach(i.yearMin, i.yearMax, Listings[id].year, 5, 5, 1)
  BY <1>1, <1>2, <1>3, YearNear
<1> QED
  BY <1>4, <1>5, <1>6, ReachIsInside DEF price

-------------------------------------------------------------------------------
(***************************************************************************)
(* Every intent that reaches the ranker has its bounds, in order.          *)
(***************************************************************************)
\* The invariant: what is typed and filtered is of the given sets, every intent at hand
\* or remembered has its bounds, and the one that is ranked passed the checks.
QueryIInv ==
    /\ stage \in {"parse", "filter"} => query \in Queries /\ overrides \in Overrides
    /\ BoundsOK(intent) /\ FieldsOK(intent)
    /\ \A q \in DOMAIN memo : BoundsOK(memo[q]) /\ FieldsOK(memo[q])
    /\ stage \in {"rank", "done"} => CheckRanges(intent)
    /\ stage = "done" => results = Results(intent, exclude)

\* A set of numbers that is not empty has a least one ...
LEMMA LeastIn ==
    ASSUME NEW N, N \subseteq Nat, N # {}
    PROVE  \E m \in N : \A n \in N : m <= n
<1> DEFINE R == OpToRel(<, Nat)
<1>1. PICK m \in N : \A n \in N : <<n, m>> \notin R
  <2>1. IsWellFoundedOn(R, Nat)
    BY NatLessThanWellFounded
  <2> HIDE DEF R
  <2> QED
    BY <2>1, WFMin
<1>2. \A n \in N : ~(n < m)
  BY <1>1 DEF OpToRel
<1> HIDE DEF R
<1>3. \A n \in N : m <= n
  BY <1>2
<1> QED
  BY <1>3

\* ... so it holds its smallest.
LEMMA SmallestIn ==
    ASSUME NEW N, N \subseteq Nat, N # {}
    PROVE  Smallest(N) \in N
BY LeastIn DEF Smallest

\* The rules find a limit or a year only where one is, and it is a number.
LEMMA RulesFindNumbers ==
    ASSUME NEW q \in Queries
    PROVE  /\ RuleKmMax(q) \in Number
           /\ RulePriceMax(q) \in Number
           /\ RuleYears(q)[1] \in Number /\ RuleYears(q)[2] \in Number
<1>1. /\ DOMAIN q \subseteq Nat
      /\ \A k \in DOMAIN q : q[k].kind \in {"limit", "year"} => q[k].value \in Int
  BY SearchAssumption DEF InputsOK, QueryOK
<1>2. \A hits \in SUBSET DOMAIN q : hits # {} => Smallest(hits) \in hits
  BY <1>1, SmallestIn
<1>3. RuleKmMax(q) \in Number
  <2> DEFINE hits == {k \in DOMAIN q : q[k].kind = "limit" /\ q[k].unit = "km"}
             limit == IF hits = {} THEN NULL ELSE q[Smallest(hits)]
             lows == {k \in DOMAIN q : q[k].kind = "lowMileage"}
             low == IF lows = {} THEN NULL ELSE q[Smallest(lows)]
  <2>1. limit # NULL => limit.value \in Int
    BY <1>1, <1>2
  <2>2. RuleKmMax(q) = IF limit # NULL THEN (IF limit.value < 1000 THEN 1000 * limit.value ELSE limit.value)
                       ELSE IF low # NULL THEN 90000 ELSE NULL
    BY SMTT(30) DEF RuleKmMax, First
  <2> HIDE DEF limit, low
  <2> QED
    BY <2>1, <2>2 DEF Number
<1>4. RulePriceMax(q) \in Number
  <2> DEFINE hits == {k \in DOMAIN q : q[k].kind = "limit" /\ ~IsMileage(q[k])}
             limit == IF hits = {} THEN NULL ELSE q[Smallest(hits)]
             billions == limit.unit = "billion" \/ (limit.unit = NULL /\ limit.value < 5)
             ones == {k \in DOMAIN q : q[k].kind = "oneBillion"}
             one == IF ones = {} THEN NULL ELSE q[Smallest(ones)]
  <2>1. limit # NULL => limit.value \in Int
    BY <1>1, <1>2
  <2>2. RulePriceMax(q) = IF limit # NULL THEN (IF billions THEN 1000 * limit.value ELSE limit.value)
                          ELSE IF one # NULL THEN 1000 ELSE NULL
    BY SMTT(30) DEF RulePriceMax, First
  <2> HIDE DEF limit, billions, one
  <2> QED
    BY <2>1, <2>2 DEF Number
<1>5. RuleYears(q)[1] \in Number /\ RuleYears(q)[2] \in Number
  <2> DEFINE hits == {k \in DOMAIN q : q[k].kind = "year"}
             c == IF hits = {} THEN NULL ELSE q[Smallest(hits)]
             year == CASE c.value >= 100 -> c.value
                       [] c.value < 100 /\ c.value >= 50 -> 1300 + c.value
                       [] OTHER -> 1400 + c.value
  <2>1. c # NULL => c.value \in Int
    BY <1>1, <1>2
  <2>2. RuleYears(q) = IF c = NULL THEN <<NULL, NULL>>
                             ELSE <<year, IF c.orNewer THEN NULL ELSE year>>
    BY DEF RuleYears, First
  <2> HIDE DEF c
  <2>3. c # NULL => year \in Int
    BY <2>1
  <2> HIDE DEF year
  <2> QED
    BY <2>2, <2>3 DEF Number
<1> QED
  BY <1>3, <1>4, <1>5

\* An intent that says nothing has its bounds.
LEMMA NoIntentBounds == BoundsOK(NoIntent)
BY DEF BoundsOK, NoIntent, Bounds, Number

\* So is the one the rules make.
LEMMA RulesBounds ==
    ASSUME NEW q \in Queries
    PROVE  BoundsOK(RulesIntent(q))
<1> DEFINE i == RulesIntent(q)
<1>1. DOMAIN i = DOMAIN NoIntent /\ Bounds \subseteq DOMAIN NoIntent
  BY DEF RulesIntent, NoIntent, Bounds
<1>2. /\ i.yearMin = RuleYears(q)[1] /\ i.yearMax = RuleYears(q)[2]
      /\ i.priceMin = NULL /\ i.priceMax = RulePriceMax(q)
      /\ i.kmMin = NULL /\ i.kmMax = RuleKmMax(q)
  BY DEF RulesIntent, NoIntent
<1> HIDE DEF i
<1>3. BoundsOK(i)
  BY <1>1, <1>2, RulesFindNumbers DEF BoundsOK, Bounds, Number
<1> QED
  BY <1>3 DEF i

\* Filters laid over an intent leave every bound a number or nothing.
LEMMA OverridesKeepBounds ==
    ASSUME NEW o \in Overrides, NEW i, BoundsOK(i)
    PROVE  BoundsOK(ApplyTo(o, i))
<1> SUFFICES ASSUME NEW f \in Bounds
             PROVE  f \in DOMAIN ApplyTo(o, i) /\ ApplyTo(o, i)[f] \in Number
  BY DEF BoundsOK
<1>1. f \in DOMAIN i /\ i[f] \in Number /\ f \notin {"year", "models", "vehicles"}
  BY DEF BoundsOK, Bounds
<1>2. /\ f \in DOMAIN o => o[f] \in Number
      /\ "year" \in DOMAIN o => o.year \in Number
  BY SearchAssumption DEF InputsOK, OverridesOK
<1> QED
  BY <1>1, <1>2 DEF ApplyTo, Over

\* The price band around a listing is a number or nothing.
LEMMA SimilarBounds ==
    ASSUME NEW id \in DOMAIN Listings
    PROVE  BoundsOK(SimilarIntent(Listings[id]))
<1>1. {TrustedPrice(Listings[id]), Listings[id].year} \subseteq Number
  BY RowOf
<1>2. \A p \in Int, b \in Number : Widened(b, p) \in Number
  BY PercentWithin DEF Widened, Number
<1>3. 100 - SIMILAR_PRICE_SPREAD \in Int /\ 100 + SIMILAR_PRICE_SPREAD \in Int
  BY SearchAssumption DEF InputsOK
<1> DEFINE row == Listings[id]
           price == TrustedPrice(row)
           i == SimilarIntent(row)
<1>4. DOMAIN i = DOMAIN NoIntent /\ Bounds \subseteq DOMAIN NoIntent
  BY DEF SimilarIntent, NoIntent, Bounds
<1>5. /\ i.yearMin = row.year /\ i.yearMax = row.year /\ i.kmMin = NULL /\ i.kmMax = NULL
      /\ i.priceMin = Widened(price, 100 - SIMILAR_PRICE_SPREAD)
      /\ i.priceMax = Widened(price, 100 + SIMILAR_PRICE_SPREAD)
  BY DEF SimilarIntent, NoIntent
<1>6. {Widened(price, 100 - SIMILAR_PRICE_SPREAD), Widened(price, 100 + SIMILAR_PRICE_SPREAD),
       row.year, NULL} \subseteq Number
  <2>1. price \in Number /\ row.year \in Number
    BY <1>1
  <2> HIDE DEF price
  <2>2. /\ Widened(price, 100 - SIMILAR_PRICE_SPREAD) \in Number
        /\ Widened(price, 100 + SIMILAR_PRICE_SPREAD) \in Number
    BY <1>2, <1>3, <2>1
  <2> QED
    BY <2>1, <2>2 DEF Number
<1> HIDE DEF i, price, row
<1>7. BoundsOK(i)
  BY <1>4, <1>5, <1>6 DEF BoundsOK, Bounds
<1> QED
  BY <1>7 DEF i, row

\* What is said in an intent is made of the words there are.
LEMMA NoIntentFields == FieldsOK(NoIntent)
BY DEF FieldsOK, NoIntent, Sorts

LEMMA RulesFields ==
    ASSUME NEW q \in Queries
    PROVE  FieldsOK(RulesIntent(q))
<1> DEFINE words == UNION {c.words : c \in {x \in ToSet(q) : x.kind = "words"}}
           i == RulesIntent(q)
<1>1. words \subseteq Words
  BY SearchAssumption DEF InputsOK, QueryOK, ToSet
<1>2. /\ i.text = {} /\ DOMAIN i = DOMAIN NoIntent
      /\ i.sort = "relevance"
      /\ i.vehicles = IF words = {} THEN <<>> ELSE <<[brand |-> {}, model |-> words, trim |-> {}]>>
  BY DEF RulesIntent, NoIntent
<1> HIDE DEF words, i
<1>3. FieldsOK(i)
  BY <1>1, <1>2 DEF FieldsOK, Said, Sorts
<1> QED
  BY <1>3 DEF i

LEMMA OverridesKeepFields ==
    ASSUME NEW o \in Overrides, NEW i, FieldsOK(i)
    PROVE  FieldsOK(ApplyTo(o, i))
<1> DEFINE a == ApplyTo(o, i)
<1>1. /\ DOMAIN o \cap {"text", "vehicles"} = {} /\ ("sort" \in DOMAIN o => o.sort \in Sorts)
      /\ "models" \in DOMAIN o => \A k \in DOMAIN o.models : o.models[k] \subseteq Words
  BY SearchAssumption DEF InputsOK, OverridesOK
<1>2. DOMAIN NoIntent \subseteq DOMAIN i /\ {"text", "vehicles", "sort"} \subseteq DOMAIN i
  BY DEF FieldsOK, NoIntent
<1>3. /\ DOMAIN i \subseteq DOMAIN a /\ a.text = i.text
      /\ a.sort = IF "sort" \in DOMAIN o THEN o.sort ELSE i.sort
      /\ a.vehicles = IF "models" \in DOMAIN o
                        THEN [k \in DOMAIN o.models |->
                                [brand |-> {}, model |-> o.models[k], trim |-> {}]]
                        ELSE i.vehicles
  <2> DEFINE year == IF "year" \in DOMAIN o THEN [yearMin |-> o.year, yearMax |-> o.year] ELSE <<>>
             vehicles == IF "models" \in DOMAIN o
                           THEN [vehicles |-> [k \in DOMAIN o.models |->
                                   [brand |-> {}, model |-> o.models[k], trim |-> {}]]]
                           ELSE <<>>
             stated == [f \in DOMAIN o \ {"year", "models"} |-> o[f]]
             said == Over(vehicles, i)
             dated == Over(year, said)
  <2>1. a = Over(stated, dated)
    BY DEF ApplyTo
  <2>2. /\ {"text", "vehicles", "sort"} \cap DOMAIN year = {}
        /\ {"text", "vehicles"} \cap DOMAIN stated = {}
        /\ "sort" \in DOMAIN stated <=> "sort" \in DOMAIN o
        /\ "sort" \in DOMAIN o => stated.sort = o.sort
    BY <1>1
  <2>3. /\ DOMAIN i \subseteq DOMAIN said /\ said.text = i.text
        /\ said.sort = i.sort
        /\ said.vehicles = IF "models" \in DOMAIN o
                              THEN [k \in DOMAIN o.models |->
                                      [brand |-> {}, model |-> o.models[k], trim |-> {}]]
                              ELSE i.vehicles
    <3>1. CASE "models" \in DOMAIN o
      <4>1. DOMAIN vehicles = {"vehicles"} /\ vehicles.vehicles = [k \in DOMAIN o.models |->
                                      [brand |-> {}, model |-> o.models[k], trim |-> {}]]
        BY <3>1
      <4> HIDE DEF vehicles
      <4> QED
        BY <1>2, <3>1, <4>1 DEF Over
    <3>2. CASE "models" \notin DOMAIN o
      <4>1. DOMAIN vehicles = {}
        BY <3>2
      <4> HIDE DEF vehicles
      <4> QED
        BY <1>2, <3>2, <4>1 DEF Over
    <3> QED
      BY <3>1, <3>2
  <2> HIDE DEF a, year, stated, said
  <2>4. /\ DOMAIN i \subseteq DOMAIN dated
        /\ dated.text = said.text /\ dated.vehicles = said.vehicles /\ dated.sort = said.sort
    BY <1>2, <2>2, <2>3 DEF Over
  <2> HIDE DEF dated
  <2>5. /\ DOMAIN i \subseteq DOMAIN a
        /\ a.text = dated.text /\ a.vehicles = dated.vehicles
        /\ a.sort = IF "sort" \in DOMAIN o THEN o.sort ELSE dated.sort
    BY <1>2, <2>1, <2>2, <2>3, <2>4 DEF Over
  <2> QED
    BY <2>3, <2>4, <2>5
<1> HIDE DEF a
<1>4. FieldsOK(a)
  <2>1. i.sort \in Sorts
    BY DEF FieldsOK
  <2>2. a.sort \in Sorts
    BY <1>1, <1>3, <2>1
  <2> QED
    BY <1>1, <1>2, <1>3, <2>2 DEF FieldsOK, Said
<1> QED
  BY <1>4 DEF a

LEMMA SimilarFields ==
    ASSUME NEW id \in DOMAIN Listings
    PROVE  FieldsOK(SimilarIntent(Listings[id]))
<1> DEFINE row == Listings[id]
           i == SimilarIntent(row)
<1>1. row.title \subseteq Words /\ (row.trim = NULL \/ row.trim \subseteq Words)
  BY SearchAssumption DEF InputsOK, TableOK, ListingOK
<1>2. /\ DOMAIN i = DOMAIN NoIntent /\ i.sort = "relevance"
      /\ i.text = IF row.trim = NULL THEN row.title ELSE {}
      /\ i.vehicles = IF row.trim = NULL THEN <<>>
                      ELSE <<[brand |-> {}, model |-> {}, trim |-> row.trim]>>
  BY DEF SimilarIntent, NoIntent
<1> HIDE DEF row, i
<1>3. FieldsOK(i)
  BY <1>1, <1>2 DEF FieldsOK, Said, Sorts
<1> QED
  BY <1>3 DEF i, row

LEMMA TextIsWords ==
    ASSUME NEW i, FieldsOK(i)
    PROVE  TextOf(i) \subseteq Words
BY DEF TextOf, FieldsOK, ToSet

\* The invariant holds at first, and every step of a request keeps it.
LEMMA QueryInit == Init => QueryIInv
BY NoIntentBounds, NoIntentFields DEF Init, QueryIInv

LEMMA QueryStep ==
    ASSUME QueryIInv, [Next]_vars
    PROVE  QueryIInv'
<1> USE DEF QueryIInv
<1>1. ASSUME NEW q \in Queries, NEW o \in Overrides, Ask(q, o) PROVE QueryIInv'
  BY <1>1 DEF Ask
<1>2. CASE ParseCached
  BY <1>2 DEF ParseCached, Parsed
<1>3. CASE ParseByRules
  BY <1>3, RulesBounds, RulesFields DEF ParseByRules, Parsed, Rejected
<1>4. CASE Filter
  BY <1>4, OverridesKeepBounds, OverridesKeepFields DEF Filter, Rejected
<1>5. CASE RankIt
  BY <1>5 DEF RankIt
<1>6. CASE Answer
  BY <1>6, NoIntentBounds, NoIntentFields DEF Answer
<1>7. CASE Expire
  BY <1>7 DEF Expire
<1>8. ASSUME NEW i \in LLMIntents, ParseByLLM(i) PROVE QueryIInv'
  <2>1. BoundsOK(i) /\ FieldsOK(i)
    BY SearchAssumption DEF InputsOK
  <2>2. \A q \in DOMAIN memo' : memo'[q] = i \/ (q \in DOMAIN memo /\ memo'[q] = memo[q])
    BY <1>8 DEF ParseByLLM, Over
  <2> QED
    BY <1>8, <2>1, <2>2 DEF ParseByLLM, Parsed
<1>9. ASSUME NEW id \in DOMAIN Listings, Similar(id) PROVE QueryIInv'
  BY <1>9, SimilarBounds, SimilarFields DEF Similar
<1>10. CASE UNCHANGED vars
  BY <1>10 DEF vars
<1> QED
  BY <1>1, <1>2, <1>3, <1>4, <1>5, <1>6, <1>7, <1>8, <1>9, <1>10 DEF Next

\* In a ranking that is made, nothing near was lost to the candidate query's bounds.
LEMMA QueryKeepsNearMisses ==
    ASSUME QueryIInv
    PROVE  GuardRailsKeepNearMisses
<1> SUFFICES ASSUME stage = "done", NEW id \in DOMAIN Listings \ exclude,
                    Conditions(Listings[id], Unbounded(GuardRails(intent))),
                    NEW text, text = GuardRails(intent).text,
                    NEW scores,
                    scores = Scores(RankingQuery(intent), Candidate(id, text)),
                    \A c \in {"price", "km", "year"} :
                        scores[c] = NULL \/ scores[c].closeness > MISS
             PROVE  Conditions(Listings[id], GuardRails(intent))
  BY DEF GuardRailsKeepNearMisses
<1>1. BoundsOK(intent) /\ CheckRanges(intent)
  BY DEF QueryIInv
<1>2. InsideBounds(Listings[id], GuardRails(intent))
  BY <1>1, NothingNearIsLost DEF Near
<1> QED
  BY <1>2, OtherConditionsUnbounded

\* Any table, any catalog, any searches, filters and answers of the model: a listing whose
\* stated price, kilometres or year still scores is not lost to the candidate query's
\* bounds (_guard_rails, CandidateFilter).
THEOREM NearMissesKept == Spec => []GuardRailsKeepNearMisses
<1>1. Init => QueryIInv
  BY QueryInit
<1>2. QueryIInv /\ [Next]_vars => QueryIInv'
  BY QueryStep
<1>3. QueryIInv => GuardRailsKeepNearMisses
  BY QueryKeepsNearMisses
<1> QED
  BY <1>1, <1>2, <1>3, PTL DEF Spec

-------------------------------------------------------------------------------
\* The column of a listing as the ranker sees it.
LEMMA SeenAs ==
    ASSUME NEW id \in DOMAIN Listings, NEW text
    PROVE  LET row == Candidate(id, text)
           IN /\ row.id = id /\ row.deal = Listings[id].deal /\ row.posted = Listings[id].posted
              /\ row.similarity = IF text = {} THEN NULL ELSE WordSimilarity(text, Listings[id].title)
BY RowOf DEF Candidate, Over

LEMMA PlaceOf ==
    ASSUME NEW id \in DOMAIN Listings, NEW text
    PROVE  Candidate(id, text).place \in Places \cup {NULL}
<1> DEFINE city == CHOOSE c \in Cities : c.name = Listings[id].city
<1>1. Listings[id].city \in {c.name : c \in Cities}
  BY SearchAssumption DEF InputsOK, TableOK, ListingOK
<1>2. city \in Cities
  BY <1>1
<1>3. Candidate(id, text).place = IF Listings[id].place # NULL THEN Listings[id].place ELSE city.place
  BY DEF Candidate, Over
<1> HIDE DEF city
<1> QED
  BY <1>2, <1>3 DEF Places

\* A closeness of a criterion that was stated is a share; one that was not has none.
Graded(score, stated) ==
  IF stated THEN score # NULL /\ score.closeness \in MISS..EXACT ELSE score = NULL

LEMMA ScoreGraded ==
    ASSUME NEW closeness \in MISS..EXACT, NEW label \in BOOLEAN
    PROVE  Graded(Score(closeness, label), TRUE) /\ Score(closeness, label).closeness = closeness
<1>1. closeness \in Int
  BY DEF MISS, EXACT
<1>2. Score(closeness, label) \in [closeness : Int, label : BOOLEAN]
  BY <1>1 DEF Score
<1>3. Score(closeness, label) # NULL
  BY <1>2, SearchAssumption DEF InputsOK
<1> QED
  BY <1>3 DEF Graded, Score

LEMMA QuotientNotNegative ==
    ASSUME NEW a \in Nat, NEW d \in Nat \ {0}
    PROVE  a \div d \in Nat
OBVIOUS

LEMMA DecayRange ==
    ASSUME NEW gap \in Nat, NEW num \in Int, NEW den \in Nat \ {0}
    PROVE  LinearDecay(gap, num, den) \in MISS..EXACT
<1>1. CASE num <= 0
  BY <1>1 DEF LinearDecay, MISS, EXACT
<1>2. CASE num > 0
  <2> DEFINE x == EXACT * gap * den
             q == x \div num
  <2>1. x \in Nat
    BY DEF EXACT
  <2>2. q \in Nat
    <3> HIDE DEF x
    <3> QED
      BY <1>2, <2>1, QuotientNotNegative
  <2>3. LinearDecay(gap, num, den) =
          IF gap > 0 /\ EXACT - q = EXACT THEN EXACT - 1 ELSE Largest({MISS, EXACT - q})
    BY <1>2 DEF LinearDecay
  <2> HIDE DEF q
  <2>4. 1000 - q \in Int
    BY <2>2
  <2>5. Largest({0, 1000 - q}) \in {0, 1000 - q} /\ Largest({0, 1000 - q}) >= 0
    <3>1. \E m \in {0, 1000 - q} : \A y \in {0, 1000 - q} : y <= m
      BY <2>4
    <3> QED
      BY <3>1 DEF Largest
  <2> QED
    BY <2>2, <2>3, <2>5 DEF MISS, EXACT
<1> QED
  BY <1>1, <1>2

\* The degrees to which a target may be met.
Degrees == {0, 300, 800, 1000}

LEMMA SomeMember ==
    ASSUME NEW D, D # {}
    PROVE  \E d : d \in D
OBVIOUS

LEMMA LargestIs ==
    ASSUME NEW D, NEW m \in D, \A d \in D : d <= m
    PROVE  Largest(D) \in D /\ \A d \in D : d <= Largest(D)
BY Zenon DEF Largest

\* Of the degrees a target may be met to, the largest is one of them.
LEMMA LargestDegree ==
    ASSUME NEW D, D \subseteq Degrees, D # {}
    PROVE  Largest(D) \in D /\ \A d \in D : d <= Largest(D)
<1>1. PICK d : d \in D
  BY SomeMember
<1>2. \E m \in D : \A x \in D : x <= m
  <2>1. CASE 1000 \in D
    BY <2>1 DEF Degrees
  <2>2. CASE 1000 \notin D /\ 800 \in D
    BY <2>2 DEF Degrees
  <2>3. CASE 1000 \notin D /\ 800 \notin D /\ 300 \in D
    BY <2>3 DEF Degrees
  <2>4. CASE 1000 \notin D /\ 800 \notin D /\ 300 \notin D
    <3>1. \A x \in D : x = 0
      BY <2>4 DEF Degrees
    <3> QED
      BY <1>1, <3>1
  <2> QED
    BY <2>1, <2>2, <2>3, <2>4
<1> QED
  BY <1>2, LargestIs, Zenon

LEMMA VehicleGraded ==
    ASSUME NEW asked, NEW row
    PROVE  Graded(VehicleScore(asked, row), asked.targets # {})
<1> DEFINE degrees == {TargetCloseness(t, row) : t \in asked.targets}
           closeness == Largest(degrees)
           label == \/ closeness = SAME_MODEL_OTHER_TRIM /\ row.trim # NULL
                    \/ closeness < SAME_MODEL_OTHER_TRIM /\ row.model # NULL
<1>1. VehicleScore(asked, row) = IF asked.targets = {} THEN NULL ELSE Score(closeness, label)
  BY DEF VehicleScore
<1>2. CASE asked.targets = {}
  BY <1>1, <1>2 DEF Graded
<1>3. CASE asked.targets # {}
  <2>1. degrees \subseteq Degrees /\ degrees # {}
    BY <1>3 DEF Degrees, TargetCloseness, MISS, EXACT, SAME_BRAND_OTHER_MODEL, SAME_MODEL_OTHER_TRIM
  <2> HIDE DEF degrees
  <2>2. closeness \in degrees /\ \A d \in degrees : d <= closeness
    BY <2>1, LargestDegree, Zenon
  <2>3. label \in BOOLEAN
    OBVIOUS
  <2> HIDE DEF closeness, label
  <2>4. closeness \in MISS..EXACT
    BY <2>1, <2>2 DEF MISS, EXACT, Degrees
  <2> QED
    BY <1>1, <1>3, <2>3, <2>4, ScoreGraded DEF Graded
<1> QED
  BY <1>2, <1>3

Bounded(low, high) == {low, high} # {NULL}
Numbers(low, high, value) == {low, high, value} \subseteq Number

LEMMA RangeGraded ==
    ASSUME NEW low, NEW high, NEW value, Numbers(low, high, value),
           NEW numLow, NEW numHigh, NEW den \in Nat \ {0}, NEW label \in BOOLEAN,
           low # NULL => numLow \in Int, high # NULL => numHigh \in Int
    PROVE  Graded(RangeOf(low, high, value, numLow, numHigh, den, label), Bounded(low, high))
<1> USE DEF Bounded
<1> DEFINE S == RangeOf(low, high, value, numLow, numHigh, den, label)
<1>1. CASE low = NULL /\ high = NULL
  BY <1>1 DEF RangeOf, RangeScore, Graded
<1>2. CASE {low, high} # {NULL} /\ value = NULL
  <2>1. S = Score(UNKNOWN_CLOSENESS, label)
    BY <1>2 DEF RangeOf, RangeScore
  <2>2. UNKNOWN_CLOSENESS \in MISS..EXACT
    BY DEF UNKNOWN_CLOSENESS, MISS, EXACT
  <2> QED
    BY <1>2, <2>1, <2>2, ScoreGraded DEF Graded
<1>3. CASE {low, high} # {NULL} /\ value # NULL
  <2>1. value \in Int /\ (low # NULL => low \in Int) /\ (high # NULL => high \in Int)
    BY <1>3 DEF Number, Numbers
  <2>2. S = IF high # NULL /\ value > high THEN Score(LinearDecay(value - high, numHigh, den), TRUE)
            ELSE IF low # NULL /\ value < low THEN Score(LinearDecay(low - value, numLow, den), TRUE)
            ELSE Unlabelled(EXACT)
    BY <1>3 DEF RangeOf, RangeScore
  <2>3. CASE high # NULL /\ value > high
    <3>1. value - high \in Nat /\ numHigh \in Int
      BY <2>1, <2>3
    <3>2. Graded(Score(LinearDecay(value - high, numHigh, den), TRUE), TRUE)
      BY <3>1, DecayRange, ScoreGraded
    <3> QED
      BY <1>3, <2>2, <2>3, <3>2 DEF Graded
  <2>4. CASE ~(high # NULL /\ value > high) /\ low # NULL /\ value < low
    <3>1. low - value \in Nat /\ numLow \in Int
      BY <2>1, <2>4
    <3>2. Graded(Score(LinearDecay(low - value, numLow, den), TRUE), TRUE)
      BY <3>1, DecayRange, ScoreGraded
    <3> QED
      BY <1>3, <2>2, <2>4, <3>2 DEF Graded
  <2>5. CASE ~(high # NULL /\ value > high) /\ ~(low # NULL /\ value < low)
    <3>1. EXACT \in MISS..EXACT
      BY DEF EXACT, MISS
    <3>2. Graded(Score(EXACT, FALSE), TRUE)
      BY <3>1, ScoreGraded
    <3> QED
      BY <1>3, <2>2, <2>5, <3>2 DEF Graded, Unlabelled
  <2> QED
    BY <2>3, <2>4, <2>5
<1> QED
  BY <1>1, <1>2, <1>3

LEMMA PriceGraded ==
    ASSUME NEW asked, NEW row, Numbers(asked.priceMin, asked.priceMax, row.price)
    PROVE  Graded(PriceScore(asked, row), Bounded(asked.priceMin, asked.priceMax))
<1>1. /\ 100 \in Nat \ {0} /\ TRUE \in BOOLEAN
      /\ asked.priceMin # NULL => asked.priceMin * 25 \in Int
      /\ asked.priceMax # NULL => asked.priceMax * 25 \in Int
  BY DEF Number, Numbers
<1>2. PriceScore(asked, row) =
        RangeOf(asked.priceMin, asked.priceMax, row.price,
                asked.priceMin * 25, asked.priceMax * 25, 100, TRUE)
  BY DEF PriceScore, PRICE_TOLERANCE, RangeOf
<1> QED
  BY <1>1, <1>2, RangeGraded, Zenon

LEMMA KmGraded ==
    ASSUME NEW asked, NEW row, Numbers(asked.kmMin, asked.kmMax, row.km)
    PROVE  Graded(KmScore(asked, row), Bounded(asked.kmMin, asked.kmMax))
<1>1. /\ 100 \in Nat \ {0} /\ TRUE \in BOOLEAN
      /\ asked.kmMin # NULL => asked.kmMin * 50 \in Int
      /\ asked.kmMax # NULL => asked.kmMax * 50 \in Int
  BY DEF Number, Numbers
<1>2. KmScore(asked, row) =
        RangeOf(asked.kmMin, asked.kmMax, row.km, asked.kmMin * 50, asked.kmMax * 50, 100, TRUE)
  BY DEF KmScore, KM_TOLERANCE, RangeOf
<1> QED
  BY <1>1, <1>2, RangeGraded, ZenonT(30)

LEMMA YearGraded ==
    ASSUME NEW asked, NEW row, Numbers(asked.yearMin, asked.yearMax, row.year)
    PROVE  Graded(YearScore(asked, row), Bounded(asked.yearMin, asked.yearMax))
<1>1. 5 \in Int /\ 1 \in Nat \ {0} /\ FALSE \in BOOLEAN
  OBVIOUS
<1>2. YearScore(asked, row) =
        RangeOf(asked.yearMin, asked.yearMax, row.year, 5, 5, 1, FALSE)
  BY DEF YearScore, YEAR_TOLERANCE, RangeOf
<1> QED
  BY <1>1, <1>2, RangeGraded, Zenon

\* Away from every city that was named, a listing is never as close as in one.
LEMMA AwayIsNear ==
    ASSUME NEW places, places \subseteq Places, places # {}, NEW place \in Places
    PROVE  Smallest({OTHER_CITY_CEILING,
                     LinearDecay(Smallest({Distance(p, place) : p \in places}), CITY_RADIUS_KM, 1)})
             \in MISS..OTHER_CITY_CEILING
<1> DEFINE distances == {Distance(p, place) : p \in places}
           decay == LinearDecay(Smallest(distances), CITY_RADIUS_KM, 1)
<1>1. distances \subseteq Nat /\ distances # {}
  BY SearchAssumption DEF InputsOK, ScalesOK
<1> HIDE DEF distances
<1>2. Smallest(distances) \in Nat
  BY <1>1, SmallestIn
<1>3. decay \in MISS..EXACT
  <2>1. CITY_RADIUS_KM \in Int /\ 1 \in Nat \ {0}
    BY DEF CITY_RADIUS_KM
  <2> QED
    BY <1>2, <2>1, DecayRange
<1> HIDE DEF decay
<1>4. \E m \in {900, decay} : \A d \in {900, decay} : m <= d
  BY <1>3 DEF MISS, EXACT
<1>5. Smallest({900, decay}) \in {900, decay} /\ Smallest({900, decay}) <= 900
  BY <1>4 DEF Smallest
<1>6. Smallest({OTHER_CITY_CEILING, decay}) \in MISS..OTHER_CITY_CEILING
  BY <1>3, <1>5 DEF MISS, EXACT, OTHER_CITY_CEILING
<1> QED
  BY <1>6 DEF decay, distances

LEMMA CityGraded ==
    ASSUME NEW asked, NEW row, asked.cities \subseteq Cities, row.place \in Places \cup {NULL}
    PROVE  Graded(CityScore(asked, row), asked.cities # {})
<1> DEFINE places == {c.place : c \in asked.cities} \ {NULL}
           distances == {Distance(p, row.place) : p \in places}
           decay == LinearDecay(Smallest(distances), CITY_RADIUS_KM, 1)
           named == \E c \in asked.cities : c.name = row.city
<1>1. CityScore(asked, row) =
        CASE asked.cities = {} -> NULL
          [] named -> Unlabelled(EXACT)
          [] OTHER -> IF row.place = NULL \/ places = {} THEN Score(MISS, TRUE)
                      ELSE Score(Smallest({OTHER_CITY_CEILING, decay}), TRUE)
  BY DEF CityScore
<1>2. places \subseteq Places
  BY DEF Places
<1>3. ASSUME row.place # NULL, places # {}
      PROVE  Smallest({OTHER_CITY_CEILING, decay}) \in MISS..EXACT
  <2> DEFINE away == Smallest({OTHER_CITY_CEILING, decay})
  <2>1. away \in MISS..OTHER_CITY_CEILING
    <3> HIDE DEF places
    <3> QED
      BY <1>2, <1>3, AwayIsNear
  <2> HIDE DEF away
  <2>2. away \in MISS..EXACT
    BY <2>1 DEF MISS, OTHER_CITY_CEILING, EXACT
  <2> QED
    BY <2>2 DEF away
<1>4. {MISS, EXACT} \subseteq MISS..EXACT /\ {TRUE, FALSE} \subseteq BOOLEAN
  BY DEF MISS, EXACT
<1>9. named => asked.cities # {}
  OBVIOUS
<1> HIDE DEF places, decay, named
<1>5. CASE asked.cities = {}
  BY <1>1, <1>5, <1>9 DEF Graded
<1>6. CASE asked.cities # {} /\ named
  BY <1>1, <1>4, <1>6, ScoreGraded DEF Graded, Unlabelled
<1>7. CASE asked.cities # {} /\ ~named /\ (row.place = NULL \/ places = {})
  BY <1>1, <1>4, <1>7, ScoreGraded DEF Graded
<1>8. CASE asked.cities # {} /\ ~named /\ ~(row.place = NULL \/ places = {})
  BY <1>1, <1>3, <1>4, <1>8, ScoreGraded DEF Graded
<1> QED
  BY <1>5, <1>6, <1>7, <1>8

LEMMA ChoiceGraded ==
    ASSUME NEW wanted, NEW value
    PROVE  Graded(ChoiceScore(wanted, value), wanted # {})
<1>1. {MISS, EXACT, UNKNOWN_CLOSENESS} \subseteq MISS..EXACT /\ {TRUE, FALSE} \subseteq BOOLEAN
  BY DEF MISS, EXACT, UNKNOWN_CLOSENESS
<1>2. CASE wanted = {}
  BY <1>2 DEF ChoiceScore, Graded
<1>3. CASE wanted # {} /\ value = NULL
  BY <1>1, <1>3, ScoreGraded DEF ChoiceScore, Graded, Unlabelled
<1>4. CASE wanted # {} /\ value # NULL
  BY <1>1, <1>4, ScoreGraded DEF ChoiceScore, Graded, Unlabelled
<1> QED
  BY <1>2, <1>3, <1>4

LEMMA TextGraded ==
    ASSUME NEW asked, NEW row, asked.text # {} => row.similarity \in MISS..EXACT
    PROVE  Graded(TextScore(asked, row), asked.text # {})
<1>1. MISS \in MISS..EXACT /\ FALSE \in BOOLEAN
  BY DEF MISS, EXACT
<1> QED
  BY <1>1, ScoreGraded DEF TextScore, Graded, Unlabelled

\* The criteria a search states, whatever the listing.
StatedBy(asked) ==
  [vehicle |-> asked.targets # {}, price |-> Bounded(asked.priceMin, asked.priceMax),
   year |-> Bounded(asked.yearMin, asked.yearMax), city |-> asked.cities # {},
   km |-> Bounded(asked.kmMin, asked.kmMax), gearbox |-> asked.gearbox # {},
   fuel |-> asked.fuel # {}, text |-> asked.text # {}, color |-> asked.colors # {}]

LEMMA AllGraded ==
    ASSUME NEW i, BoundsOK(i), FieldsOK(i), NEW id \in DOMAIN Listings,
           NEW asked, asked = RankingQuery(i), NEW row, row = Candidate(id, TextOf(i))
    PROVE  \A c \in DOMAIN Weight : Graded(Scores(asked, row)[c], StatedBy(asked)[c])
<1>1. /\ asked.priceMin = i.priceMin /\ asked.priceMax = i.priceMax
      /\ asked.kmMin = i.kmMin /\ asked.kmMax = i.kmMax
      /\ asked.yearMin = i.yearMin /\ asked.yearMax = i.yearMax
  BY AskedOf
<1>2. asked.cities \subseteq Cities /\ asked.text = TextOf(i)
  BY DEF RankingQuery
<1>3. {row.price, row.km, row.year} \subseteq Number
  BY CandidateOf, RowOf
<1>4. row.place \in Places \cup {NULL}
  BY PlaceOf
<1>5. asked.text # {} => row.similarity \in MISS..EXACT
  <2>1. TextOf(i) \subseteq Words
    BY TextIsWords
  <2>2. TextOf(i) # {} => row.similarity = WordSimilarity(TextOf(i), Listings[id].title)
    BY SeenAs
  <2>3. TextOf(i) # {} => WordSimilarity(TextOf(i), Listings[id].title) \in MISS..EXACT
    BY <2>1, SearchAssumption DEF InputsOK, ScalesOK
  <2> QED
    BY <1>2, <2>2, <2>3
<1>6. {asked.priceMin, asked.priceMax, asked.kmMin, asked.kmMax, asked.yearMin, asked.yearMax}
        \subseteq Number
  BY <1>1 DEF BoundsOK, Bounds
<1>7. /\ Graded(VehicleScore(asked, row), asked.targets # {})
      /\ Graded(PriceScore(asked, row), Bounded(asked.priceMin, asked.priceMax))
      /\ Graded(KmScore(asked, row), Bounded(asked.kmMin, asked.kmMax))
      /\ Graded(YearScore(asked, row), Bounded(asked.yearMin, asked.yearMax))
      /\ Graded(CityScore(asked, row), asked.cities # {})
      /\ Graded(TextScore(asked, row), asked.text # {})
      /\ Graded(ChoiceScore(asked.gearbox, row.gearbox), asked.gearbox # {})
      /\ Graded(ChoiceScore(asked.fuel, row.fuel), asked.fuel # {})
      /\ Graded(ChoiceScore(asked.colors, row.color), asked.colors # {})
  <2>1. /\ Graded(PriceScore(asked, row), Bounded(asked.priceMin, asked.priceMax))
        /\ Graded(KmScore(asked, row), Bounded(asked.kmMin, asked.kmMax))
        /\ Graded(YearScore(asked, row), Bounded(asked.yearMin, asked.yearMax))
    BY <1>3, <1>6, PriceGraded, KmGraded, YearGraded DEF Numbers
  <2> QED
    BY <1>2, <1>4, <1>5, <2>1, VehicleGraded, CityGraded, TextGraded, ChoiceGraded
<1> QED
  BY <1>7 DEF Scores, StatedBy, Weight

-----------------------------------------------------------------------------
\* Sums over finite sets, in the order MapThenSumSet chooses: as many as there are
\* pairs of a member and a number up to its weight.
AnyOf(s) == CHOOSE x \in s : TRUE

SumsUp(g, S, weight) ==
  g = [s \in SUBSET S |-> IF s = {} THEN 0 ELSE weight[AnyOf(s)] + g[s \ {AnyOf(s)}]]

Heap(s, weight) == UNION {{x} \X (1..weight[x]) : x \in s}

LEMMA OneToFinite ==
    ASSUME NEW n \in Nat
    PROVE  IsFiniteSet(1..n) /\ Cardinality(1..n) = n
<1>1. 1 \in Int /\ n \in Int
  OBVIOUS
<1> QED
  BY <1>1, FS_Interval

LEMMA HeapOfOne ==
    ASSUME NEW x, NEW n \in Nat
    PROVE  IsFiniteSet({x} \X (1..n)) /\ Cardinality({x} \X (1..n)) = n
<1>1. IsFiniteSet(1..n) /\ Cardinality(1..n) = n
  BY OneToFinite
<1>2. IsFiniteSet({x}) /\ Cardinality({x}) = 1
  BY FS_Singleton
<1>3. IsFiniteSet({x} \X (1..n)) /\ Cardinality({x} \X (1..n)) = 1 * n
  BY <1>1, <1>2, FS_Product, ZenonT(40)
<1> QED
  BY <1>3

LEMMA HeapFinite ==
    ASSUME NEW s, IsFiniteSet(s), NEW weight, \A x \in s : weight[x] \in Nat
    PROVE  IsFiniteSet(Heap(s, weight))
<1> DEFINE parts == {{x} \X (1..weight[x]) : x \in s}
           f == [x \in s |-> {x} \X (1..weight[x])]
<1>1. f \in Surjection(s, parts)
  BY DEF Surjection
<1>2. \A T \in parts : IsFiniteSet(T)
  <2> SUFFICES ASSUME NEW x \in s PROVE IsFiniteSet({x} \X (1..weight[x]))
    OBVIOUS
  <2>1. weight[x] \in Nat
    OBVIOUS
  <2> QED
    BY <2>1, HeapOfOne
<1> HIDE DEF f, parts
<1>3. IsFiniteSet(UNION parts)
  BY <1>1, <1>2, FS_Surjection, FS_UNION
<1> QED
  BY <1>3 DEF parts, Heap

LEMMA HeapSumsUp ==
    ASSUME NEW S, IsFiniteSet(S), NEW weight, \A x \in S : weight[x] \in Nat
    PROVE  SumsUp([s \in SUBSET S |-> Cardinality(Heap(s, weight))], S, weight)
<1> DEFINE h == [s \in SUBSET S |-> Cardinality(Heap(s, weight))]
<1>1. ASSUME NEW s \in SUBSET S
      PROVE  IsFiniteSet(Heap(s, weight)) /\ Cardinality(Heap(s, weight)) \in Nat
  BY FS_Subset, HeapFinite, FS_CardinalityType
<1>2. Heap({}, weight) = {}
  BY DEF Heap
<1>3. ASSUME NEW s \in SUBSET S, s # {}
      PROVE  h[s] = weight[AnyOf(s)] + h[s \ {AnyOf(s)}]
  <2> DEFINE x == AnyOf(s)
             rest == s \ {x}
             one == {x} \X (1..weight[x])
  <2>1. x \in s
    BY <1>3 DEF AnyOf
  <2> HIDE DEF x
  <2>2. rest \in SUBSET S /\ x \in S
    BY <2>1
  <2>3. Heap(s, weight) = one \cup Heap(rest, weight) /\ one \cap Heap(rest, weight) = {}
    BY <2>1 DEF Heap
  <2>4. IsFiniteSet(one) /\ Cardinality(one) = weight[x]
    BY <2>2, HeapOfOne
  <2>5. h[rest] = Cardinality(Heap(rest, weight)) /\ h[s] = Cardinality(Heap(s, weight))
    BY <2>2
  <2>6. IsFiniteSet(Heap(rest, weight)) /\ Cardinality(Heap(rest, weight)) \in Nat
    BY <1>1, <2>2
  <2> HIDE DEF h, rest, one
  <2>7. Cardinality(one \cup Heap(rest, weight))
          = Cardinality(one) + Cardinality(Heap(rest, weight)) - Cardinality(one \cap Heap(rest, weight))
    BY <2>4, <2>6, FS_Union
  <2>8. Cardinality(one \cap Heap(rest, weight)) = 0
    BY <2>3, FS_EmptySet
  <2>9. weight[x] \in Nat
    BY <2>2
  <2> QED
    BY <2>3, <2>4, <2>5, <2>6, <2>7, <2>8, <2>9 DEF x, rest
<1>4. h[{}] = 0
  BY <1>2, FS_EmptySet
<1>5. \A s \in SUBSET S : h[s] = IF s = {} THEN 0 ELSE weight[AnyOf(s)] + h[s \ {AnyOf(s)}]
  BY <1>3, <1>4
<1>6. h = [s \in SUBSET S |-> h[s]]
  OBVIOUS
<1> HIDE DEF h
<1>7. SumsUp(h, S, weight)
  BY <1>5, <1>6 DEF SumsUp
<1> QED
  BY <1>7 DEF h

\* There is one sum.
LEMMA OneSum ==
    ASSUME NEW S, IsFiniteSet(S), NEW weight, NEW g, NEW h, SumsUp(g, S, weight), SumsUp(h, S, weight)
    PROVE  g[S] = h[S]
<1> DEFINE bad == {s \in SUBSET S : g[s] # h[s]}
           N == {Cardinality(s) : s \in bad}
<1>1. SUFFICES ASSUME bad # {} PROVE FALSE
  OBVIOUS
<1>2. \A s \in SUBSET S : IsFiniteSet(s) /\ Cardinality(s) \in Nat
  BY FS_Subset, FS_CardinalityType
<1>3. PICK s \in bad : \A r \in bad : Cardinality(s) <= Cardinality(r)
  <2>1. N # {} /\ N \subseteq Nat
    BY <1>1, <1>2
  <2> HIDE DEF N
  <2>2. \E m \in N : \A n \in N : m <= n
    BY <2>1, LeastIn
  <2> QED
    BY <2>2 DEF N
<1>4. s \in SUBSET S /\ g[s] # h[s]
  OBVIOUS
<1>5. s # {}
  BY <1>4 DEF SumsUp
<1> DEFINE x == AnyOf(s)
           rest == s \ {x}
<1>6. x \in s
  BY <1>5 DEF AnyOf
<1>7. /\ g[s] = weight[x] + g[rest] /\ h[s] = weight[x] + h[rest]
  BY <1>4, <1>5 DEF SumsUp
<1> HIDE DEF x
<1>8. rest \in bad
  BY <1>4, <1>7
<1>9. Cardinality(rest) = Cardinality(s) - 1 /\ Cardinality(s) \in Nat /\ Cardinality(rest) \in Nat
  BY <1>2, <1>4, <1>6, FS_RemoveElement
<1> QED
  BY <1>3, <1>8, <1>9

\* So there is a sum, and it is the size of the heap.
LEMMA SumIsHeap ==
    ASSUME NEW S, IsFiniteSet(S), NEW weight, \A x \in S : weight[x] \in Nat
    PROVE  /\ \E g : SumsUp(g, S, weight)
           /\ \A g : SumsUp(g, S, weight) => g[S] = Cardinality(Heap(S, weight))
<1> DEFINE h == [s \in SUBSET S |-> Cardinality(Heap(s, weight))]
<1>1. SumsUp(h, S, weight)
  BY HeapSumsUp
<1>2. h[S] = Cardinality(Heap(S, weight))
  OBVIOUS
<1> HIDE DEF h
<1> QED
  BY <1>1, <1>2, OneSum

\* Heavier heaps are larger.
LEMMA SumsGrow ==
    ASSUME NEW S, IsFiniteSet(S), NEW low, NEW high,
           \A x \in S : low[x] \in Nat /\ high[x] \in Nat /\ low[x] <= high[x]
    PROVE  /\ Cardinality(Heap(S, low)) \in Nat /\ Cardinality(Heap(S, high)) \in Nat
           /\ Cardinality(Heap(S, low)) <= Cardinality(Heap(S, high))
           /\ S # {} /\ (\A x \in S : low[x] > 0) => Cardinality(Heap(S, low)) > 0
<1>1. Heap(S, low) \subseteq Heap(S, high)
  BY DEF Heap
<1>2. IsFiniteSet(Heap(S, low)) /\ IsFiniteSet(Heap(S, high))
  BY HeapFinite
<1>3. S # {} /\ (\A x \in S : low[x] > 0) => Heap(S, low) # {}
  <2> SUFFICES ASSUME NEW x \in S, low[x] > 0 PROVE Heap(S, low) # {}
    OBVIOUS
  <2>1. <<x, 1>> \in {x} \X (1..low[x])
    OBVIOUS
  <2> QED
    BY <2>1 DEF Heap
<1> QED
  BY <1>1, <1>2, <1>3, FS_Subset, FS_CardinalityType, FS_EmptySet

\* The two sums of a match.
GainOf(scores) == [c \in Stated(scores) |-> Weight[c] * scores[c].closeness]

LEMMA WeightsPositive ==
    /\ DOMAIN Weight = {"vehicle", "price", "year", "city", "km", "gearbox", "fuel", "text", "color"}
    /\ \A c \in DOMAIN Weight : Weight[c] \in Nat /\ Weight[c] > 0
BY DEF Weight

LEMMA WeightsFinite == IsFiniteSet(DOMAIN Weight)
<1> DEFINE f == [n \in 1..9 |-> Criteria[n]]
<1>1. f \in Surjection(1..9, DOMAIN Weight)
  <2>1. \A n \in 1..9 : Criteria[n] \in DOMAIN Weight
    BY WeightsPositive DEF Criteria
  <2>2. \A c \in DOMAIN Weight : \E n \in 1..9 : Criteria[n] = c
    BY WeightsPositive DEF Criteria
  <2> QED
    BY <2>1, <2>2 DEF Surjection
<1>2. IsFiniteSet(1..9)
  <2>1. 1 \in Int /\ 9 \in Int
    OBVIOUS
  <2> QED
    BY <2>1, FS_Interval
<1> HIDE DEF f
<1> QED
  BY <1>1, <1>2, FS_Surjection

LEMMA MatchIs ==
    ASSUME NEW scores, IsFiniteSet(Stated(scores)), Stated(scores) \subseteq DOMAIN Weight,
           \A c \in Stated(scores) : GainOf(scores)[c] \in Nat
    PROVE  Match(scores) =
             IF Stated(scores) = {} THEN NULL
             ELSE Cardinality(Heap(Stated(scores), GainOf(scores)))
                    \div Cardinality(Heap(Stated(scores), Weight))
<1> DEFINE S == Stated(scores)
           w == GainOf(scores)
           total == MapThenSumSet(LAMBDA c : Weight[c] * scores[c].closeness, S)
           parts == MapThenSumSet(LAMBDA c : Weight[c], S)
<1>1. Match(scores) = IF S = {} THEN NULL ELSE total \div parts
  BY DEF Match
<1>2. total = Cardinality(Heap(S, w))
  <2> DEFINE sums(g) == g = [s \in SUBSET S |->
                 IF s = {} THEN 0
                 ELSE Weight[AnyOf(s)] * scores[AnyOf(s)].closeness + g[s \ {AnyOf(s)}]]
             g == CHOOSE g : sums(g)
  <2>1. total = g[S]
    BY DEF MapThenSumSet, MapThenFoldSet, AnyOf
  <2>2. \A f : sums(f) <=> SumsUp(f, S, w)
    <3>1. \A s \in SUBSET S : s # {} => w[AnyOf(s)] = Weight[AnyOf(s)] * scores[AnyOf(s)].closeness
      BY DEF AnyOf, GainOf
    <3> HIDE DEF w, S
    <3> QED
      BY <3>1 DEF SumsUp
  <2> HIDE DEF S, w, sums, total
  <2>3. sums(g)
    BY <2>2, SumIsHeap DEF S, w
  <2> HIDE DEF g
  <2> QED
    BY <2>1, <2>2, <2>3, SumIsHeap DEF S, w
<1>3. parts = Cardinality(Heap(S, Weight))
  <2> DEFINE sums(g) == g = [s \in SUBSET S |->
                 IF s = {} THEN 0 ELSE Weight[AnyOf(s)] + g[s \ {AnyOf(s)}]]
             g == CHOOSE g : sums(g)
  <2>1. parts = g[S]
    BY DEF MapThenSumSet, MapThenFoldSet, AnyOf
  <2>2. \A f : sums(f) <=> SumsUp(f, S, Weight)
    BY DEF SumsUp
  <2>3. \A c \in S : Weight[c] \in Nat
    BY WeightsPositive
  <2> HIDE DEF S, sums, parts
  <2>4. sums(g)
    BY <2>2, <2>3, SumIsHeap DEF S
  <2> HIDE DEF g
  <2> QED
    BY <2>1, <2>2, <2>3, <2>4, SumIsHeap DEF S
<1> HIDE DEF total, parts
<1> QED
  BY <1>1, <1>2, <1>3

LEMMA QuotientGrows ==
    ASSUME NEW a \in Nat, NEW b \in Nat, a <= b, NEW d \in Nat \ {0}
    PROVE  a \div d \in Nat /\ b \div d \in Nat /\ a \div d <= b \div d
<1> DEFINE p == a \div d
           q == b \div d
<1>1. /\ p \in Nat /\ q \in Nat
      /\ a = d * p + (a % d) /\ a % d \in 0..(d - 1)
      /\ b = d * q + (b % d) /\ b % d \in 0..(d - 1)
  OBVIOUS
<1> HIDE DEF p, q
<1>2. ASSUME q + 1 <= p PROVE FALSE
  <2>1. d * (q + 1) <= d * p
    BY <1>1, <1>2
  <2> QED
    BY <1>1, <2>1
<1>3. p \in Nat /\ q \in Nat /\ p <= q
  BY <1>1, <1>2
<1> QED
  BY <1>3 DEF p, q

\* Graded alike, and nowhere lower: the match is no lower.
LEMMA MatchGrows ==
    ASSUME NEW low, NEW high, Stated(low) = Stated(high), Stated(low) \subseteq DOMAIN Weight,
           \A c \in Stated(low) : /\ low[c].closeness \in MISS..EXACT /\ high[c].closeness \in MISS..EXACT
                                  /\ low[c].closeness <= high[c].closeness
    PROVE  \/ Match(low) = NULL /\ Match(high) = NULL
           \/ Match(low) # NULL /\ Match(high) # NULL /\ Match(low) \in Nat /\ Match(high) \in Nat /\ Match(low) <= Match(high)
<1> DEFINE S == Stated(low)
<1>1. IsFiniteSet(S)
  BY WeightsFinite, FS_Subset
<1>2. \A c \in S : /\ GainOf(low)[c] \in Nat /\ GainOf(high)[c] \in Nat
                   /\ GainOf(low)[c] <= GainOf(high)[c]
  <2> SUFFICES ASSUME NEW c \in S
               PROVE  /\ GainOf(low)[c] \in Nat /\ GainOf(high)[c] \in Nat
                      /\ GainOf(low)[c] <= GainOf(high)[c]
    OBVIOUS
  <2> DEFINE w == Weight[c]
             a == low[c].closeness
             b == high[c].closeness
  <2>1. w \in Nat /\ a \in Nat /\ b \in Nat /\ a <= b
    <3>1. c \in DOMAIN Weight /\ c \in Stated(low)
      OBVIOUS
    <3>2. w \in Nat
      BY <3>1, WeightsPositive
    <3>3. a \in 0..1000 /\ b \in 0..1000 /\ a <= b
      BY <3>1, ZenonT(40) DEF MISS, EXACT
    <3> HIDE DEF w, a, b
    <3> QED
      BY <3>2, <3>3
  <2>2. GainOf(low)[c] = w * a /\ GainOf(high)[c] = w * b
    BY DEF GainOf
  <2> HIDE DEF w, a, b
  <2>3. w * a \in Nat /\ w * b \in Nat /\ w * a <= w * b
    BY <2>1
  <2> QED
    BY <2>2, <2>3
<1>3. \A c \in S : Weight[c] \in Nat /\ Weight[c] > 0
  BY WeightsPositive
<1>4. CASE S = {}
  BY <1>1, <1>2, <1>4, MatchIs
<1>5. CASE S # {}
  <2> DEFINE a == Cardinality(Heap(S, GainOf(low)))
             b == Cardinality(Heap(S, GainOf(high)))
             d == Cardinality(Heap(S, Weight))
  <2>1. a \in Nat /\ b \in Nat /\ a <= b
    BY <1>1, <1>2, SumsGrow
  <2>2. d \in Nat /\ d > 0
    BY <1>1, <1>3, <1>5, SumsGrow
  <2>3. Match(low) = a \div d /\ Match(high) = b \div d
    BY <1>1, <1>2, <1>5, MatchIs
  <2> HIDE DEF a, b, d
  <2>4. a \div d \in Nat /\ b \div d \in Nat /\ a \div d <= b \div d
    BY <2>1, <2>2, QuotientGrows
  <2>5. NULL \notin Nat
    BY SearchAssumption DEF InputsOK
  <2> QED
    BY <2>3, <2>4, <2>5
<1> QED
  BY <1>4, <1>5

-----------------------------------------------------------------------------
\* What the ranker sees of a listing, for an intent.
Seen(i, id) == Candidate(id, TextOf(i))
ScoresFor(i, id) == Scores(RankingQuery(i), Seen(i, id))

\* Every listing is judged by the criteria the search states, each with a share.
LEMMA StatedAlike ==
    ASSUME NEW i, BoundsOK(i), FieldsOK(i), NEW id \in DOMAIN Listings
    PROVE  /\ Stated(ScoresFor(i, id)) = {c \in DOMAIN Weight : StatedBy(RankingQuery(i))[c]}
           /\ DOMAIN ScoresFor(i, id) = DOMAIN Weight
           /\ \A c \in Stated(ScoresFor(i, id)) : ScoresFor(i, id)[c].closeness \in MISS..EXACT
<1>1. \A c \in DOMAIN Weight : Graded(ScoresFor(i, id)[c], StatedBy(RankingQuery(i))[c])
  BY AllGraded DEF ScoresFor, Seen
<1>2. DOMAIN ScoresFor(i, id) = DOMAIN Weight
  BY DEF ScoresFor, Scores, Weight
<1> QED
  BY <1>1, <1>2 DEF Graded, Stated

\* A listing that is nowhere further from what was asked, no worse a deal and no older.
NoFurther(i, a, b) ==
  /\ \A c \in Stated(ScoresFor(i, a)) : ScoresFor(i, a)[c].closeness >= ScoresFor(i, b)[c].closeness
  /\ NULL \notin {Seen(i, a).deal, Seen(i, b).deal, Seen(i, a).posted, Seen(i, b).posted}
  /\ Seen(i, a).deal >= Seen(i, b).deal /\ Seen(i, a).posted >= Seen(i, b).posted

RankedFor(i, id) == Ranked(RankingQuery(i), Seen(i, id), Now)

LEMMA RanksAreNumbers ==
    ASSUME NEW i, BoundsOK(i), FieldsOK(i), NEW id \in DOMAIN Listings
    PROVE  /\ RankedFor(i, id).rank \in Int
           /\ Deal(Seen(i, id)) \in Int /\ Freshness(Seen(i, id), Now) \in Int
           /\ RankedFor(i, id).rank =
                Combine(Match(ScoresFor(i, id)), Deal(Seen(i, id)), Freshness(Seen(i, id), Now))
           /\ RankedFor(i, id).id = id
<1> DEFINE row == Seen(i, id)
           s == ScoresFor(i, id)
<1>1. row.id = id /\ row.deal = Listings[id].deal /\ row.posted = Listings[id].posted
  BY SeenAs DEF Seen
<1>2. row.deal \in Number /\ row.posted \in Number
  BY <1>1, RowOf
<1>3. Deal(row) \in Int
  BY <1>2 DEF Deal, NEUTRAL, Number
<1>4. Freshness(row, Now) \in Int
  <2>1. row.posted # NULL => Age(row, Now) \in Ages
    BY <1>1 DEF Age, Ages
  <2> HIDE DEF row
  <2>2. row.posted # NULL => FreshnessDecay(Age(row, Now)) \in Int
    BY <2>1, SearchAssumption DEF InputsOK, ScalesOK
  <2> QED
    BY <2>2 DEF Freshness, NEUTRAL
<1>5. Match(s) = NULL \/ (Match(s) # NULL /\ Match(s) \in Int)
  BY StatedAlike, MatchGrows
<1>6. RankedFor(i, id).rank = Combine(Match(s), Deal(row), Freshness(row, Now)) /\ RankedFor(i, id).id = id
  BY <1>1 DEF RankedFor, Ranked, ScoresFor
<1> HIDE DEF row, s
<1>7. Combine(Match(s), Deal(row), Freshness(row, Now)) \in Int
  BY <1>3, <1>4, <1>5 DEF Combine
<1> QED
  BY <1>3, <1>4, <1>6, <1>7 DEF row, s

LEMMA NoFurtherRanks ==
    ASSUME NEW i, BoundsOK(i), FieldsOK(i), NEW a \in DOMAIN Listings, NEW b \in DOMAIN Listings,
           NoFurther(i, a, b)
    PROVE  /\ RankedFor(i, a).rank >= RankedFor(i, b).rank
           /\ RankedFor(i, b).exact => RankedFor(i, a).exact
           /\ RankedFor(i, a).offModel => RankedFor(i, b).offModel
<1> DEFINE sa == ScoresFor(i, a)
           sb == ScoresFor(i, b)
           ra == Seen(i, a)
           rb == Seen(i, b)
<1>1. Stated(sa) = Stated(sb) /\ Stated(sa) \subseteq DOMAIN Weight
  BY StatedAlike
<1>2. \A c \in Stated(sa) : /\ sa[c].closeness \in MISS..EXACT /\ sb[c].closeness \in MISS..EXACT
                            /\ sb[c].closeness <= sa[c].closeness
  <2> SUFFICES ASSUME NEW c \in Stated(sa)
               PROVE  /\ sa[c].closeness \in MISS..EXACT /\ sb[c].closeness \in MISS..EXACT
                      /\ sb[c].closeness <= sa[c].closeness
    OBVIOUS
  <2> DEFINE x == sa[c].closeness
             y == sb[c].closeness
  <2>1. c \in Stated(sb)
    BY <1>1
  <2>2. x \in MISS..EXACT /\ y \in MISS..EXACT
    BY <2>1, StatedAlike, Zenon
  <2>3. x >= y
    BY Zenon DEF NoFurther
  <2> HIDE DEF x, y, sa, sb
  <2>4. y <= x
    BY <2>2, <2>3 DEF MISS, EXACT
  <2> QED
    BY <2>2, <2>4, Zenon DEF x, y
<1>3. \/ Match(sb) = NULL /\ Match(sa) = NULL
      \/ Match(sb) # NULL /\ Match(sa) # NULL /\ Match(sb) \in Nat /\ Match(sa) \in Nat /\ Match(sb) <= Match(sa)
  BY <1>1, <1>2, MatchGrows
<1>4. Deal(rb) <= Deal(ra)
  <2>1. {ra.deal, rb.deal} \subseteq Number /\ NULL \notin {ra.deal, rb.deal} /\ ra.deal >= rb.deal
    BY SeenAs, RowOf DEF Seen, NoFurther
  <2> HIDE DEF ra, rb
  <2> QED
    BY <2>1 DEF Deal, Number
<1>5. Freshness(rb, Now) <= Freshness(ra, Now)
  <2>1. /\ {ra.posted, rb.posted} \subseteq Number /\ NULL \notin {ra.posted, rb.posted}
        /\ ra.posted >= rb.posted
    BY SeenAs, RowOf DEF Seen, NoFurther
  <2>2. Age(ra, Now) \in Ages /\ Age(rb, Now) \in Ages
    BY <2>1, SeenAs DEF Seen, Age, Ages
  <2>3. Now \in Int
    BY SearchAssumption DEF InputsOK
  <2> HIDE DEF ra, rb
  <2>4. Age(ra, Now) <= Age(rb, Now)
    BY <2>1, <2>3 DEF Age, Number
  <2>5. FreshnessDecay(Age(rb, Now)) <= FreshnessDecay(Age(ra, Now))
    BY <2>2, <2>4, SearchAssumption DEF InputsOK, ScalesOK
  <2> QED
    BY <2>1, <2>5 DEF Freshness
<1>6. RankedFor(i, a).rank >= RankedFor(i, b).rank
  <2>1. /\ Deal(ra) \in Int /\ Deal(rb) \in Int /\ Freshness(ra, Now) \in Int /\ Freshness(rb, Now) \in Int
        /\ RankedFor(i, a).rank = Combine(Match(sa), Deal(ra), Freshness(ra, Now))
        /\ RankedFor(i, b).rank = Combine(Match(sb), Deal(rb), Freshness(rb, Now))
    BY RanksAreNumbers
  <2> HIDE DEF sa, sb, ra, rb
  <2>2. Combine(Match(sb), Deal(rb), Freshness(rb, Now)) <= Combine(Match(sa), Deal(ra), Freshness(ra, Now))
    BY <1>3, <1>4, <1>5, <2>1 DEF Combine
  <2>3. Combine(Match(sb), Deal(rb), Freshness(rb, Now)) \in Int /\ Combine(Match(sa), Deal(ra), Freshness(ra, Now)) \in Int
    BY <1>3, <2>1 DEF Combine
  <2> QED
    BY <2>1, <2>2, <2>3
<1>7. RankedFor(i, a).exact = IsExact(sa) /\ RankedFor(i, b).exact = IsExact(sb)
  BY DEF RankedFor, Ranked, ScoresFor
<1>8. RankedFor(i, a).offModel = IsOffModel(sa) /\ RankedFor(i, b).offModel = IsOffModel(sb)
  BY DEF RankedFor, Ranked, ScoresFor
<1>9. DOMAIN sa = DOMAIN Weight /\ DOMAIN sb = DOMAIN Weight /\ "vehicle" \in DOMAIN Weight
  BY StatedAlike, WeightsPositive
<1> HIDE DEF sa, sb
<1>10. IsExact(sb) => IsExact(sa)
  <2> SUFFICES ASSUME \A c \in Stated(sb) : sb[c].closeness = EXACT, NEW c \in Stated(sa)
               PROVE  sa[c].closeness = EXACT
    BY DEF IsExact
  <2> DEFINE x == sa[c].closeness
             y == sb[c].closeness
  <2>1. x \in MISS..EXACT /\ y <= x
    BY <1>2, Zenon
  <2>2. y = EXACT
    BY <1>1, Zenon
  <2> HIDE DEF x, y
  <2>3. x = EXACT
    BY <2>1, <2>2 DEF MISS, EXACT
  <2> QED
    BY <2>3, Zenon DEF x
<1>11. IsOffModel(sa) => IsOffModel(sb)
  <2> SUFFICES ASSUME sa["vehicle"] # NULL, sa["vehicle"].closeness < SAME_MODEL_OTHER_TRIM
               PROVE  sb["vehicle"] # NULL /\ sb["vehicle"].closeness < SAME_MODEL_OTHER_TRIM
    BY DEF IsOffModel
  <2> DEFINE x == sa["vehicle"].closeness
             y == sb["vehicle"].closeness
  <2>1. "vehicle" \in Stated(sa) /\ "vehicle" \in Stated(sb)
    BY <1>1, <1>9 DEF Stated
  <2>2. x \in MISS..EXACT /\ y \in MISS..EXACT /\ y <= x
    BY <1>2, <2>1, Zenon
  <2>3. x < SAME_MODEL_OTHER_TRIM
    OBVIOUS
  <2> HIDE DEF x, y
  <2>4. y < SAME_MODEL_OTHER_TRIM
    BY <2>2, <2>3 DEF MISS, EXACT, SAME_MODEL_OTHER_TRIM
  <2>5. sb["vehicle"] # NULL
    BY <2>1 DEF Stated
  <2> QED
    BY <2>4, <2>5, Zenon DEF y
<1> QED
  BY <1>6, <1>7, <1>8, <1>10, <1>11

-----------------------------------------------------------------------------
\* Keys are numbers, as many in each, compared from the left.
LEMMA LexOrders ==
    ASSUME NEW n \in Nat, NEW a \in [1..n -> Int], NEW b \in [1..n -> Int]
    PROVE  /\ ~LexLess(a, a)
           /\ a # b => LexLess(a, b) \/ LexLess(b, a)
           /\ \A c \in [1..n -> Int] : LexLess(a, b) /\ LexLess(b, c) => LexLess(a, c)
<1>1. ~LexLess(a, a)
  BY DEF LexLess
<1>2. ASSUME a # b PROVE LexLess(a, b) \/ LexLess(b, a)
  <2> DEFINE D == {k \in 1..n : a[k] # b[k]}
  <2>1. D # {} /\ D \subseteq Nat
    BY <1>2
  <2>2. PICK k \in D : \A m \in D : k <= m
    <3> HIDE DEF D
    <3> QED
      BY <2>1, LeastIn
  <2>3. \A m \in 1..(k - 1) : a[m] = b[m]
    BY <2>2
  <2>4. a[k] < b[k] \/ b[k] < a[k]
    BY <2>2
  <2> QED
    BY <2>2, <2>3, <2>4 DEF LexLess
<1>3. ASSUME NEW c \in [1..n -> Int], LexLess(a, b), LexLess(b, c) PROVE LexLess(a, c)
  <2>1. PICK j \in 1..n : a[j] < b[j] /\ \A m \in 1..(j - 1) : a[m] = b[m]
    BY <1>3 DEF LexLess
  <2>2. PICK k \in 1..n : b[k] < c[k] /\ \A m \in 1..(k - 1) : b[m] = c[m]
    BY <1>3 DEF LexLess
  <2>3. \E l \in 1..n : a[l] < c[l] /\ \A m \in 1..(l - 1) : a[m] = c[m]
    <3>1. CASE j <= k
      <4>1. a[j] < c[j]
        BY <2>1, <2>2, <3>1
      <4>2. \A m \in 1..(j - 1) : a[m] = c[m]
        BY <2>1, <2>2, <3>1
      <4> QED
        BY <4>1, <4>2
    <3>2. CASE k < j
      <4>1. a[k] < c[k]
        BY <2>1, <2>2, <3>2
      <4>2. \A m \in 1..(k - 1) : a[m] = c[m]
        BY <2>1, <2>2, <3>2
      <4> QED
        BY <4>1, <4>2
    <3> QED
      BY <3>1, <3>2
  <2> QED
    BY <2>3 DEF LexLess
<1> QED
  BY <1>1, <1>2, <1>3

\* Rows with keys of their own.
Keyed(K) ==
  /\ IsFiniteSet(K)
  /\ \E n \in Nat : \A k \in K : k.key \in [1..n -> Int]
  /\ \A k, l \in K : k # l => k.key # l.key

PlaceIn(K, k) == Cardinality({m \in K : LexLess(m.key, k.key)}) + 1

\* A lower key has a lower place ...
LEMMA PlacesInOrder ==
    ASSUME NEW K, Keyed(K), NEW k \in K, NEW l \in K, LexLess(k.key, l.key)
    PROVE  PlaceIn(K, k) < PlaceIn(K, l)
<1> DEFINE below(m) == {n \in K : LexLess(n.key, m.key)}
<1>1. below(k) \subseteq below(l) /\ k \in below(l) /\ k \notin below(k)
  BY LexOrders DEF Keyed
<1>2. IsFiniteSet(below(k)) /\ IsFiniteSet(below(l))
  BY FS_Subset DEF Keyed
<1>3. PlaceIn(K, k) = Cardinality(below(k)) + 1 /\ PlaceIn(K, l) = Cardinality(below(l)) + 1
  BY DEF PlaceIn
<1> HIDE DEF below
<1>4. /\ Cardinality(below(k)) <= Cardinality(below(l))
      /\ Cardinality(below(k)) # Cardinality(below(l))
  <2>1. below(k) # below(l)
    BY <1>1
  <2> QED
    BY <1>1, <1>2, <2>1, FS_Subset
<1>5. Cardinality(below(k)) \in Nat /\ Cardinality(below(l)) \in Nat
  BY <1>2, FS_CardinalityType
<1> QED
  BY <1>3, <1>4, <1>5

\* ... no two rows share one, and there are as many as rows.
LEMMA PlacesDiffer ==
    ASSUME NEW K, Keyed(K)
    PROVE  /\ Cardinality(K) \in Nat
           /\ \A k \in K : PlaceIn(K, k) \in 1..Cardinality(K)
           /\ \A k, l \in K : PlaceIn(K, k) = PlaceIn(K, l) => k = l
<1> DEFINE N == Cardinality(K)
<1>1. N \in Nat
  BY FS_CardinalityType DEF Keyed
<1>2. ASSUME NEW k \in K
      PROVE  PlaceIn(K, k) \in 1..N
  <2> DEFINE below == {m \in K : LexLess(m.key, k.key)}
  <2>1. below \subseteq K /\ k \notin below
    BY LexOrders DEF Keyed
  <2>2. IsFiniteSet(K)
    BY DEF Keyed
  <2>3. PlaceIn(K, k) = Cardinality(below) + 1
    BY DEF PlaceIn
  <2> HIDE DEF below
  <2>4. Cardinality(below) \in Nat /\ Cardinality(below) < N
    BY <2>1, <2>2, FS_Subset, FS_CardinalityType
  <2> HIDE DEF N
  <2> QED
    BY <1>1, <2>3, <2>4
<1>3. ASSUME NEW k \in K, NEW l \in K, k # l PROVE PlaceIn(K, k) # PlaceIn(K, l)
  <2>1. LexLess(k.key, l.key) \/ LexLess(l.key, k.key)
    BY <1>3, LexOrders DEF Keyed
  <2>2. PlaceIn(K, k) \in Int /\ PlaceIn(K, l) \in Int
    BY <1>1, <1>2
  <2> QED
    BY <2>1, <2>2, PlacesInOrder
<1> QED
  BY <1>1, <1>2, <1>3

\* ... and every place is taken.
LEMMA PlacesTaken ==
    ASSUME NEW K, Keyed(K), NEW p \in 1..Cardinality(K)
    PROVE  \E k \in K : PlaceIn(K, k) = p
<1> DEFINE N == Cardinality(K)
           place == [k \in K |-> PlaceIn(K, k)]
<1>1. IsFiniteSet(1..N) /\ Cardinality(1..N) = N
  BY PlacesDiffer, OneToFinite
<1>2. place \in Injection(K, 1..N)
  <2>1. place \in [K -> 1..N]
    BY PlacesDiffer
  <2>2. \A k, l \in K : place[k] = place[l] => k = l
    BY PlacesDiffer
  <2> HIDE DEF place
  <2> QED
    BY <2>1, <2>2 DEF Injection, IsInjective
<1>3. place \in Surjection(K, 1..N)
  <2> HIDE DEF place
  <2> QED
    BY <1>1, <1>2, FS_Injection
<1>4. PICK k \in K : place[k] = p
  BY <1>3 DEF Surjection
<1> QED
  BY <1>4

-----------------------------------------------------------------------------
\* The candidates of an intent are listings as the ranker sees them, finitely many.
LEMMA CandidatesSeen ==
    ASSUME NEW i, NEW excluded
    PROVE  /\ IsFiniteSet(FindCandidates(GuardRails(i), excluded))
           /\ \A c \in FindCandidates(GuardRails(i), excluded) :
                 \E id \in DOMAIN Listings : c = Seen(i, id)
<1> DEFINE C == FindCandidates(GuardRails(i), excluded)
           f == [id \in DOMAIN Listings |-> Seen(i, id)]
           ids == {id \in DOMAIN Listings : Seen(i, id) \in C}
<1>1. GuardRails(i).text = TextOf(i)
  BY DEF GuardRails
<1>2. \A c \in C : \E id \in DOMAIN Listings : c = Seen(i, id)
  BY <1>1 DEF FindCandidates, Seen
<1> HIDE DEF C
<1>3. IsFiniteSet(ids)
  <2>1. IsFiniteSet(DOMAIN Listings)
    BY SearchAssumption DEF InputsOK, TableOK
  <2> QED
    BY <2>1, FS_Subset
<1>4. [id \in ids |-> Seen(i, id)] \in Surjection(ids, C)
  BY <1>2 DEF Surjection
<1>5. IsFiniteSet(C)
  <2> DEFINE g == [id \in ids |-> Seen(i, id)]
  <2> HIDE DEF g, ids
  <2>1. g \in Surjection(ids, C)
    BY <1>4 DEF g
  <2> QED
    BY <1>3, <2>1, FS_Surjection
<1> QED
  BY <1>2, <1>5 DEF C

\* A row of the ranking, and its key: the tiers, the value sorted by, the relevance.
RowOfRank(i, id) ==
  [listing |-> RankedFor(i, id), key |-> SortKey(i.sort, RankedFor(i, id), Seen(i, id))]

Kept(i, excluded) ==
  {k \in {RowOfRank(i, id) : id \in {id \in DOMAIN Listings :
                             Seen(i, id) \in FindCandidates(GuardRails(i), excluded)}} :
     PassesCutoff(k.listing)}

KeyLength(i) == IF i.sort = "relevance" THEN 5 ELSE 6

LEMMA Appended ==
    ASSUME NEW S, NEW s \in Seq(S), NEW t \in Seq(S)
    PROVE  /\ s \o t \in Seq(S) /\ Len(s \o t) = Len(s) + Len(t)
           /\ \A k \in 1..Len(s) : (s \o t)[k] = s[k]
           /\ \A k \in 1..Len(t) : (s \o t)[Len(s) + k] = t[k]
OBVIOUS

LEMMA Joined ==
    ASSUME NEW m \in Nat, NEW n \in Nat, NEW s \in [1..m -> Int], NEW t \in [1..n -> Int]
    PROVE  /\ s \o t \in [1..(m + n) -> Int]
           /\ \A k \in 1..m : (s \o t)[k] = s[k]
           /\ \A k \in 1..n : (s \o t)[m + k] = t[k]
<1>1. s \in Seq(Int) /\ t \in Seq(Int) /\ Len(s) = m /\ Len(t) = n
  OBVIOUS
<1> DEFINE st == s \o t
<1> HIDE DEF st
<1>2. st \in Seq(Int) /\ Len(st) = Len(s) + Len(t)
  BY <1>1, Appended DEF st
<1>3. /\ \A k \in 1..Len(s) : st[k] = s[k]
      /\ \A k \in 1..Len(t) : st[Len(s) + k] = t[k]
  BY <1>1, Appended DEF st
<1>4. \A k \in 1..m : st[k] = s[k]
  BY <1>1, <1>3
<1>5. \A k \in 1..n : st[m + k] = t[k]
  BY <1>1, <1>3
<1>6. st \in Seq(Int) /\ Len(st) = m + n
  BY <1>1, <1>2
<1>7. st \in [1..Len(st) -> Int]
  BY <1>6
<1>8. st \in [1..(m + n) -> Int]
  BY <1>6, <1>7
<1> QED
  BY <1>4, <1>5, <1>8 DEF st

\* What a search is sorted by is a number of every listing.
LEMMA ExplicitIsNumber ==
    ASSUME NEW id \in DOMAIN Listings, NEW text, NEW sort \in Sorts, sort # "relevance"
    PROVE  ExplicitValue(sort, Candidate(id, text)) \in Int
<1> DEFINE row == Candidate(id, text)
<1>1. {row.price, row.km, row.posted, row.deal} \subseteq Number
  BY SeenAs, CandidateOf, RowOf
<1> HIDE DEF row
<1>2. sort \in {"price", "km", "newest", "deal"}
  BY DEF Sorts
<1>3. ExplicitValue(sort, row) \in Int
  BY <1>1, <1>2 DEF ExplicitValue, Missing, Number
<1> QED
  BY <1>3 DEF row

LEMMA KeyIs ==
    ASSUME NEW i, BoundsOK(i), FieldsOK(i), NEW id \in DOMAIN Listings
    PROVE  LET key == RowOfRank(i, id).key
           IN /\ key \in [1..KeyLength(i) -> Int] /\ key[KeyLength(i)] = id
              /\ key[1] = Flag(~RankedFor(i, id).exact) /\ key[2] = Flag(RankedFor(i, id).offModel)
              /\ i.sort = "relevance" => key[3] = -RankedFor(i, id).rank
<1> DEFINE r == RankedFor(i, id)
           row == Seen(i, id)
           age == IF row.posted = NULL THEN 0 ELSE -row.posted
           value == ExplicitValue(i.sort, row)
           tier == <<Flag(~r.exact), Flag(r.offModel)>>
           relevance == <<-r.rank, age, r.id>>
           key == RowOfRank(i, id).key
<1>1. key = IF i.sort = "relevance" THEN tier \o relevance ELSE tier \o <<value>> \o relevance
  BY DEF RowOfRank, SortKey
<1>2. r.rank \in Int /\ r.id = id /\ id \in Int
  BY RanksAreNumbers, SearchAssumption DEF InputsOK, TableOK
<1>3. row.posted \in Number
  BY SeenAs, RowOf DEF Seen
<1>4. age \in Int
  <2> HIDE DEF row
  <2> QED
    BY <1>3 DEF Number
<1>5. i.sort # "relevance" => value \in Int
  BY ExplicitIsNumber DEF FieldsOK, Seen
<1>6. Flag(~r.exact) \in Int /\ Flag(r.offModel) \in Int
  BY DEF Flag
<1> HIDE DEF r, age, key, value
<1>7. tier \in [1..2 -> Int] /\ tier[1] = Flag(~r.exact) /\ tier[2] = Flag(r.offModel)
  BY <1>6
<1>8. relevance \in [1..3 -> Int] /\ relevance[1] = -r.rank /\ relevance[3] = id
  BY <1>2, <1>4
<1> HIDE DEF tier, relevance
<1>9. tier \in [1..2 -> Int] /\ relevance \in [1..3 -> Int]
  BY <1>7, <1>8
<1>10. 1 \in Nat /\ 2 \in Nat /\ 3 \in Nat
  OBVIOUS
<1>11. CASE i.sort = "relevance"
  <2> DEFINE st == tier \o relevance
  <2>1. /\ st \in [1..(2 + 3) -> Int]
        /\ \A k \in 1..2 : st[k] = tier[k]
        /\ \A k \in 1..3 : st[2 + k] = relevance[k]
    BY <1>9, <1>10, Joined, Zenon
  <2>2. key = st
    BY <1>1, <1>11
  <2> HIDE DEF st
  <2>3. st \in [1..5 -> Int]
    BY <2>1
  <2>4. st[1] = tier[1] /\ st[2] = tier[2]
    BY <2>1
  <2>5. st[2 + 1] = relevance[1] /\ st[2 + 3] = relevance[3]
    BY <2>1
  <2> QED
    BY <1>7, <1>8, <1>11, <2>2, <2>3, <2>4, <2>5 DEF KeyLength, key, r
<1>12. CASE i.sort # "relevance"
  <2> DEFINE head == tier \o <<value>>
             all == head \o relevance
  <2>1. <<value>> \in [1..1 -> Int]
    BY <1>5, <1>12
  <2>2. /\ head \in [1..(2 + 1) -> Int] /\ \A k \in 1..2 : head[k] = tier[k]
    BY <1>9, <1>10, <2>1, Joined, Zenon
  <2> HIDE DEF head
  <2>3. head \in [1..3 -> Int]
    BY <2>2
  <2>4. /\ all \in [1..(3 + 3) -> Int]
        /\ \A k \in 1..3 : all[k] = head[k]
        /\ \A k \in 1..3 : all[3 + k] = relevance[k]
    BY <1>9, <1>10, <2>3, Joined, Zenon
  <2>5. key = all
    BY <1>1, <1>12 DEF head
  <2> HIDE DEF all
  <2>6. all \in [1..6 -> Int]
    BY <2>4
  <2>7. all[1] = tier[1] /\ all[2] = tier[2]
    BY <2>2, <2>4
  <2>8. all[3 + 3] = relevance[3]
    BY <2>4
  <2> QED
    BY <1>7, <1>8, <1>12, <2>5, <2>6, <2>7, <2>8 DEF KeyLength, key, r
<1> QED
  BY <1>11, <1>12

LEMMA KeptKeyed ==
    ASSUME NEW i, BoundsOK(i), FieldsOK(i), NEW excluded
    PROVE  Keyed(Kept(i, excluded))
<1> DEFINE K == Kept(i, excluded)
           ids == {id \in DOMAIN Listings : RowOfRank(i, id) \in K}
           g == [id \in ids |-> RowOfRank(i, id)]
<1>1. \A k \in K : \E id \in DOMAIN Listings : k = RowOfRank(i, id)
  BY DEF Kept
<1> HIDE DEF K
<1>2. g \in Surjection(ids, K)
  BY <1>1 DEF Surjection
<1>3. IsFiniteSet(ids)
  <2>1. IsFiniteSet(DOMAIN Listings)
    BY SearchAssumption DEF InputsOK, TableOK
  <2> QED
    BY <2>1, FS_Subset
<1> HIDE DEF g, ids
<1>4. IsFiniteSet(K)
  BY <1>2, <1>3, FS_Surjection
<1>5. KeyLength(i) \in Nat /\ \A k \in K : k.key \in [1..KeyLength(i) -> Int]
  BY <1>1, KeyIs DEF KeyLength
<1>6. ASSUME NEW k \in K, NEW l \in K, k # l PROVE k.key # l.key
  <2>1. PICK a \in DOMAIN Listings : k = RowOfRank(i, a)
    BY <1>1
  <2>2. PICK b \in DOMAIN Listings : l = RowOfRank(i, b)
    BY <1>1
  <2>3. k.key[KeyLength(i)] = a /\ l.key[KeyLength(i)] = b
    BY <2>1, <2>2, KeyIs
  <2> QED
    BY <1>6, <2>1, <2>2, <2>3
<1> QED
  BY <1>4, <1>5, <1>6 DEF Keyed, K

\* Each place of a ranking holds the kept row that takes it.
LEMMA RankIs ==
    ASSUME NEW i, BoundsOK(i), FieldsOK(i), NEW excluded,
           NEW ranking, ranking = Rank(RankingQuery(i), FindCandidates(GuardRails(i), excluded), Now)
    PROVE  /\ Cardinality(Kept(i, excluded)) \in Nat
           /\ DOMAIN ranking = 1..Cardinality(Kept(i, excluded))
           /\ ranking = [p \in DOMAIN ranking |-> ranking[p]]
           /\ \A p \in DOMAIN ranking : \E k \in Kept(i, excluded) :
                 PlaceIn(Kept(i, excluded), k) = p /\ ranking[p] = k.listing
<1> DEFINE asked == RankingQuery(i)
           C == FindCandidates(GuardRails(i), excluded)
           keyed(c) == [listing |-> Ranked(asked, c, Now), key |-> SortKey(asked.sort, Ranked(asked, c, Now), c)]
           K == {k \in {keyed(c) : c \in C} : PassesCutoff(k.listing)}
           placed == {<<Cardinality({m \in K : LexLess(m.key, k.key)}) + 1, k.listing>> : k \in K}
<1>1. ranking = [p \in 1..Cardinality(K) |-> (CHOOSE m \in placed : m[1] = p)[2]]
  BY DEF Rank
<1>2. K = Kept(i, excluded)
  <2>1. asked.sort = i.sort
    BY DEF RankingQuery
  <2>2. \A id \in DOMAIN Listings : keyed(Seen(i, id)) = RowOfRank(i, id)
    BY <2>1 DEF RowOfRank, RankedFor
  <2>3. \A c \in C : \E id \in DOMAIN Listings : c = Seen(i, id)
    BY CandidatesSeen
  <2> HIDE DEF C, keyed
  <2>4. {keyed(c) : c \in C} = {RowOfRank(i, id) : id \in {id \in DOMAIN Listings : Seen(i, id) \in C}}
    BY <2>2, <2>3
  <2> QED
    BY <2>4 DEF Kept, C
<1>3. placed = {<<PlaceIn(K, k), k.listing>> : k \in K}
  BY DEF PlaceIn
<1> HIDE DEF K, placed
<1>4. Keyed(K)
  BY <1>2, KeptKeyed
<1>5. Cardinality(K) \in Nat
  BY <1>4, FS_CardinalityType DEF Keyed
<1>6. ASSUME NEW p \in 1..Cardinality(K)
      PROVE  \E k \in K : PlaceIn(K, k) = p /\ ranking[p] = k.listing
  <2>1. PICK k \in K : PlaceIn(K, k) = p
    BY <1>4, PlacesTaken
  <2>2. \E m \in placed : m[1] = p
    <3>1. <<PlaceIn(K, k), k.listing>> \in placed
      BY <1>3
    <3>2. <<PlaceIn(K, k), k.listing>>[1] = p
      BY <2>1
    <3> QED
      BY <3>1, <3>2
  <2> DEFINE m == CHOOSE m \in placed : m[1] = p
  <2>3. m \in placed /\ m[1] = p
    BY <2>2
  <2>4. ranking[p] = m[2]
    BY <1>1
  <2> HIDE DEF m
  <2>5. PICK l \in K : m = <<PlaceIn(K, l), l.listing>>
    BY <1>3, <2>3
  <2> QED
    BY <2>3, <2>4, <2>5
<1> QED
  BY <1>1, <1>2, <1>5, <1>6

\* The first of a sequence are its own.
LEMMA UptoIs ==
    ASSUME NEW n \in Nat, NEW s, s = [p \in 1..n |-> s[p]], NEW limit \in Nat
    PROVE  /\ DOMAIN Upto(s, limit) \subseteq 1..n
           /\ \A p \in DOMAIN Upto(s, limit) : Upto(s, limit)[p] = s[p]
           /\ n <= limit => DOMAIN Upto(s, limit) = 1..n
<1>1. s \in Seq({s[p] : p \in 1..n}) /\ Len(s) = n
  OBVIOUS
<1> DEFINE last == Smallest({n, limit})
<1>2. last \in Nat /\ last <= n /\ (n <= limit => last = n)
  <2>1. \E m \in {n, limit} : \A x \in {n, limit} : m <= x
    OBVIOUS
  <2>2. last \in {n, limit} /\ last <= n /\ last <= limit
    BY <2>1 DEF Smallest
  <2> HIDE DEF last
  <2> QED
    BY <2>2
<1>3. Upto(s, limit) = SubSeq(s, 1, last)
  BY <1>1 DEF Upto
<1> HIDE DEF last
<1>4. SubSeq(s, 1, last) = [p \in 1..last |-> s[p]]
  BY <1>1, <1>2
<1>5. DOMAIN Upto(s, limit) = 1..last /\ \A p \in 1..last : Upto(s, limit)[p] = s[p]
  BY <1>3, <1>4
<1>6. 1..last \subseteq 1..n
  BY <1>2
<1> QED
  BY <1>2, <1>5, <1>6

\* Of two kept rows, the one nowhere further has the lower key, or they rank alike.
LEMMA NoFurtherIsBefore ==
    ASSUME NEW i, BoundsOK(i), FieldsOK(i), NEW a \in DOMAIN Listings, NEW b \in DOMAIN Listings,
           i.sort = "relevance", NoFurther(i, a, b), RankedFor(i, a).rank # RankedFor(i, b).rank
    PROVE  LexLess(RowOfRank(i, a).key, RowOfRank(i, b).key)
<1> DEFINE ra == RankedFor(i, a)
           rb == RankedFor(i, b)
           ka == RowOfRank(i, a).key
           kb == RowOfRank(i, b).key
<1>1. ka \in [1..5 -> Int] /\ kb \in [1..5 -> Int]
  BY KeyIs DEF KeyLength
<1>2. /\ ka[1] = Flag(~ra.exact) /\ ka[2] = Flag(ra.offModel) /\ ka[3] = -ra.rank
      /\ kb[1] = Flag(~rb.exact) /\ kb[2] = Flag(rb.offModel) /\ kb[3] = -rb.rank
  BY KeyIs
<1>3. ra.rank \in Int /\ rb.rank \in Int /\ ra.rank # rb.rank
  BY RanksAreNumbers
<1>4. ra.rank >= rb.rank /\ (rb.exact => ra.exact) /\ (ra.offModel => rb.offModel)
  BY NoFurtherRanks
<1> HIDE DEF ra, rb, ka, kb
<1>5. ka[1] <= kb[1] /\ ka[2] <= kb[2]
  BY <1>2, <1>4 DEF Flag
<1>6. ka[3] < kb[3]
  BY <1>2, <1>3, <1>4
<1>7. 1..(1 - 1) = {} /\ 1..(2 - 1) = {1} /\ 1..(3 - 1) = {1, 2} /\ {1, 2, 3} \subseteq 1..5
  OBVIOUS
<1>8. \E k \in 1..5 : ka[k] < kb[k] /\ \A m \in 1..(k - 1) : ka[m] = kb[m]
  <2>1. CASE ka[1] < kb[1]
    BY <1>7, <2>1
  <2>2. CASE ka[1] = kb[1] /\ ka[2] < kb[2]
    BY <1>7, <2>2
  <2>3. CASE ka[1] = kb[1] /\ ka[2] = kb[2]
    BY <1>6, <1>7, <2>3
  <2> QED
    BY <1>1, <1>5, <1>7, <2>1, <2>2, <2>3
<1>9. LexLess(ka, kb)
  BY <1>1, <1>8 DEF LexLess
<1> QED
  BY <1>9 DEF ka, kb

\* Each result is a listing, kept, in its place.
LEMMA ResultsAre ==
    ASSUME NEW i, BoundsOK(i), FieldsOK(i), NEW excluded,
           NEW p \in DOMAIN Results(i, excluded)
    PROVE  \E id \in DOMAIN Listings :
             /\ RowOfRank(i, id) \in Kept(i, excluded)
             /\ PlaceIn(Kept(i, excluded), RowOfRank(i, id)) = p
             /\ Results(i, excluded)[p] = RankedFor(i, id)
<1> DEFINE ranking == Rank(RankingQuery(i), FindCandidates(GuardRails(i), excluded), Now)
           K == Kept(i, excluded)
           n == Cardinality(K)
<1>1. Results(i, excluded) = Upto(ranking, MAX_RESULTS)
  BY DEF Results
<1>2. /\ n \in Nat /\ DOMAIN ranking = 1..n /\ ranking = [q \in DOMAIN ranking |-> ranking[q]]
      /\ \A q \in DOMAIN ranking : \E k \in K : PlaceIn(K, k) = q /\ ranking[q] = k.listing
  BY RankIs
<1>3. MAX_RESULTS \in Nat
  BY SearchAssumption DEF InputsOK
<1> HIDE DEF ranking, n
<1>4. p \in DOMAIN ranking /\ Results(i, excluded)[p] = ranking[p]
  BY <1>1, <1>2, <1>3, UptoIs
<1>5. PICK k \in K : PlaceIn(K, k) = p /\ ranking[p] = k.listing
  BY <1>2, <1>4
<1>6. PICK id \in DOMAIN Listings : k = RowOfRank(i, id)
  BY DEF Kept
<1>7. k.listing = RankedFor(i, id)
  BY <1>6 DEF RowOfRank
<1> QED
  BY <1>4, <1>5, <1>6, <1>7

LEMMA ResultsInOrder ==
    ASSUME NEW i, BoundsOK(i), FieldsOK(i), i.sort = "relevance", NEW excluded,
           NEW p \in DOMAIN Results(i, excluded), NEW q \in DOMAIN Results(i, excluded),
           NoFurther(i, Results(i, excluded)[p].id, Results(i, excluded)[q].id)
    PROVE  p <= q \/ Results(i, excluded)[p].rank = Results(i, excluded)[q].rank
<1> DEFINE K == Kept(i, excluded)
<1>1. PICK a \in DOMAIN Listings :
        /\ RowOfRank(i, a) \in K /\ PlaceIn(K, RowOfRank(i, a)) = p
        /\ Results(i, excluded)[p] = RankedFor(i, a)
  BY ResultsAre
<1>2. PICK b \in DOMAIN Listings :
        /\ RowOfRank(i, b) \in K /\ PlaceIn(K, RowOfRank(i, b)) = q
        /\ Results(i, excluded)[q] = RankedFor(i, b)
  BY ResultsAre
<1>3. NoFurther(i, a, b)
  BY <1>1, <1>2, RanksAreNumbers
<1>4. ASSUME RankedFor(i, a).rank # RankedFor(i, b).rank PROVE p < q
  <2>1. LexLess(RowOfRank(i, a).key, RowOfRank(i, b).key)
    BY <1>3, <1>4, NoFurtherIsBefore
  <2>2. Keyed(K)
    BY KeptKeyed
  <2> QED
    BY <1>1, <1>2, <2>1, <2>2, PlacesInOrder
<1>5. p \in Int /\ q \in Int
  <2>1. Keyed(K)
    BY KeptKeyed
  <2>2. \A k \in K : PlaceIn(K, k) \in Int
    <3> SUFFICES ASSUME NEW k \in K PROVE PlaceIn(K, k) \in Int
      OBVIOUS
    <3>1. IsFiniteSet({m \in K : LexLess(m.key, k.key)})
      BY <2>1, FS_Subset DEF Keyed
    <3> QED
      BY <3>1, FS_CardinalityType DEF PlaceIn
  <2> QED
    BY <1>1, <1>2, <2>2
<1> QED
  BY <1>1, <1>2, <1>4, <1>5

LEMMA QueryKeepsOrder ==
    ASSUME BoundsOK(intent), FieldsOK(intent), stage = "done" => results = Results(intent, exclude)
    PROVE  CloserNeverBelow
<1> SUFFICES ASSUME stage = "done", intent.sort = "relevance"
    PROVE  LET asked == RankingQuery(intent)
               shownAt(p) == LET row == Candidate(results[p].id, asked.text)
                             IN [place |-> p, rank |-> results[p].rank, row |-> row,
                                 scores |-> Scores(asked, row)]
               shown == {shownAt(p) : p \in DOMAIN results}
               known == {s \in shown : s.row.deal # NULL /\ s.row.posted # NULL}
           IN \A s, t \in known :
                /\ \A c \in Stated(s.scores) : s.scores[c].closeness >= t.scores[c].closeness
                /\ s.row.deal >= t.row.deal /\ s.row.posted >= t.row.posted
                => s.place <= t.place \/ s.rank = t.rank
  BY DEF CloserNeverBelow
<1> DEFINE asked == RankingQuery(intent)
           shownAt(p) == [place |-> p, rank |-> results[p].rank, row |-> Candidate(results[p].id, asked.text),
                          scores |-> Scores(asked, Candidate(results[p].id, asked.text))]
<1> SUFFICES ASSUME NEW p \in DOMAIN results, NEW q \in DOMAIN results,
                    NEW s, s = shownAt(p), NEW t, t = shownAt(q),
                    s.row.deal # NULL, s.row.posted # NULL, t.row.deal # NULL, t.row.posted # NULL,
                    \A c \in Stated(s.scores) : s.scores[c].closeness >= t.scores[c].closeness,
                    s.row.deal >= t.row.deal, s.row.posted >= t.row.posted
             PROVE  s.place <= t.place \/ s.rank = t.rank
  OBVIOUS
<1>1. results = Results(intent, exclude)
  OBVIOUS
<1>2. asked.text = TextOf(intent)
  BY DEF RankingQuery
<1>3. /\ s.place = p /\ s.rank = results[p].rank /\ s.row = Seen(intent, results[p].id)
      /\ s.scores = ScoresFor(intent, results[p].id)
      /\ t.place = q /\ t.rank = results[q].rank /\ t.row = Seen(intent, results[q].id)
      /\ t.scores = ScoresFor(intent, results[q].id)
  BY <1>2 DEF Seen, ScoresFor
<1>4. NoFurther(intent, results[p].id, results[q].id)
  BY <1>3 DEF NoFurther
<1>5. p <= q \/ results[p].rank = results[q].rank
  BY <1>1, <1>4, ResultsInOrder
<1> QED
  BY <1>3, <1>5

\* Any table, any catalog, any searches, filters and answers of the model: of two results
\* by relevance, one that is nowhere further from what was asked, no worse a deal and no
\* older is not below the other, unless they rank alike (rank, _sort_key).
THEOREM CloserIsNeverBelow == Spec => []CloserNeverBelow
<1>1. Init => QueryIInv
  BY QueryInit
<1>2. QueryIInv /\ [Next]_vars => QueryIInv'
  BY QueryStep
<1>3. QueryIInv => CloserNeverBelow
  BY QueryKeepsOrder DEF QueryIInv
<1> QED
  BY <1>1, <1>2, <1>3, PTL DEF Spec
-------------------------------------------------------------------------------
(***************************************************************************)
(* The counts beside a search.  A facet counts what the search would show  *)
(* and satisfies every bound as it was stated.  The two agree when nothing  *)
(* is cut off: what is counted passes the cut-off of the ranking, and what  *)
(* is exact on every criterion is inside the bounds, and conversely.        *)
(***************************************************************************)
\* A finite set of numbers has a largest and a smallest one.
LEMMA EndsIn ==
    ASSUME NEW N, N \subseteq Int, IsFiniteSet(N), N # {}
    PROVE  /\ \E m \in N : \A n \in N : n <= m
           /\ \E m \in N : \A n \in N : m <= n
<1> DEFINE above(n) == {x \in N : x > n}
           below(n) == {x \in N : x < n}
           overs == {Cardinality(above(n)) : n \in N}
           unders == {Cardinality(below(n)) : n \in N}
<1>1. \A n \in N : /\ IsFiniteSet(above(n)) /\ Cardinality(above(n)) \in Nat
                   /\ IsFiniteSet(below(n)) /\ Cardinality(below(n)) \in Nat
  BY FS_Subset, FS_CardinalityType
<1>2. /\ overs \subseteq Nat /\ overs # {}
      /\ unders \subseteq Nat /\ unders # {}
  BY <1>1
<1>3. ASSUME NEW m \in N, NEW n \in N, m < n
      PROVE  above(n) \subseteq above(m) /\ above(n) # above(m)
  <2>1. above(n) \subseteq above(m)
    <3>1. m \in Int /\ n \in Int /\ \A x \in N : x \in Int
      OBVIOUS
    <3>2. \A x \in N : x > n => x > m
      BY <1>3, <3>1
    <3> QED
      BY <3>2
  <2>2. n \in above(m) /\ n \notin above(n)
    BY <1>3
  <2> QED
    BY <2>1, <2>2
<1>4. ASSUME NEW m \in N, NEW n \in N, n < m
      PROVE  below(n) \subseteq below(m) /\ below(n) # below(m)
  <2>1. below(n) \subseteq below(m)
    <3>1. m \in Int /\ n \in Int /\ \A x \in N : x \in Int
      OBVIOUS
    <3>2. \A x \in N : x < n => x < m
      BY <1>4, <3>1
    <3> QED
      BY <3>2
  <2>2. n \in below(m) /\ n \notin below(n)
    BY <1>4
  <2> QED
    BY <2>1, <2>2
<1>5. \E m \in N : \A n \in N : n <= m
  <2>1. PICK s \in overs : \A t \in overs : s <= t
    <3> HIDE DEF overs
    <3> QED
      BY <1>2, LeastIn
  <2>2. PICK m \in N : s = Cardinality(above(m))
    OBVIOUS
  <2>3. \A n \in N : Cardinality(above(m)) <= Cardinality(above(n))
    BY <2>1, <2>2
  <2> HIDE DEF above, overs
  <2>4. ASSUME NEW n \in N, m < n PROVE FALSE
    <3>1. above(n) \subseteq above(m) /\ above(n) # above(m)
      BY <1>3, <2>4
    <3>2. Cardinality(above(n)) <= Cardinality(above(m)) /\ Cardinality(above(n)) # Cardinality(above(m))
      BY <1>1, <3>1, FS_Subset
    <3>3. {Cardinality(above(n)), Cardinality(above(m))} \subseteq Nat
      BY <1>1
    <3> QED
      BY <2>3, <3>2, <3>3
  <2>5. \A n \in N : n <= m
    BY <2>4
  <2> QED
    BY <2>5
<1>6. \E m \in N : \A n \in N : m <= n
  <2>1. PICK s \in unders : \A t \in unders : s <= t
    <3> HIDE DEF unders
    <3> QED
      BY <1>2, LeastIn
  <2>2. PICK m \in N : s = Cardinality(below(m))
    OBVIOUS
  <2>3. \A n \in N : Cardinality(below(m)) <= Cardinality(below(n))
    BY <2>1, <2>2
  <2> HIDE DEF below, unders
  <2>4. ASSUME NEW n \in N, n < m PROVE FALSE
    <3>1. below(n) \subseteq below(m) /\ below(n) # below(m)
      BY <1>4, <2>4
    <3>2. Cardinality(below(n)) <= Cardinality(below(m)) /\ Cardinality(below(n)) # Cardinality(below(m))
      BY <1>1, <3>1, FS_Subset
    <3>3. {Cardinality(below(n)), Cardinality(below(m))} \subseteq Nat
      BY <1>1
    <3> QED
      BY <2>3, <3>2, <3>3
  <2>5. \A n \in N : m <= n
    BY <2>4
  <2> QED
    BY <2>5
<1> QED
  BY <1>5, <1>6

\* What a finite set is mapped to is finite, and no more.
LEMMA ImageFinite ==
    ASSUME NEW S, IsFiniteSet(S), NEW T, NEW f, DOMAIN f = S, T = {f[x] : x \in S}
    PROVE  IsFiniteSet(T) /\ Cardinality(T) <= Cardinality(S)
<1> DEFINE g == [x \in S |-> f[x]]
<1>1. g \in [S -> T] /\ \A t \in T : \E x \in S : g[x] = t
  OBVIOUS
<1>2. g \in Surjection(S, T)
  BY <1>1 DEF Surjection
<1> HIDE DEF g
<1> QED
  BY <1>2, FS_Surjection

\* The best match of some words, when there is one, is an entry of the catalog.
LEMMA BestIs ==
    ASSUME NEW words \in (SUBSET Words) \ {{}}, NEW category, BestMatch(words, category) # NULL
    PROVE  BestMatch(words, category) \in Catalog
<1> DEFINE score(e) == WordSimilarity(words, e.words)
           found == {e \in Catalog : /\ score(e) >= MIN_CATALOG_SIMILARITY
                                     /\ category \in {NULL, e.category}}
           scores == {score(e) : e \in found}
<1>1. /\ found # {}
      /\ BestMatch(words, category) =
           CHOOSE e \in found : \A f \in found :
             score(f) < score(e) \/ (score(f) = score(e) /\ f.count <= e.count)
  BY DEF BestMatch
<1>2. ASSUME NEW e \in Catalog PROVE score(e) \in Int /\ e.count \in Int
  <2>1. WordSimilarity(words, e.words) \in MISS..EXACT /\ e.count \in Int
    BY SearchAssumption DEF InputsOK, CatalogOK
  <2> QED
    BY <2>1 DEF MISS, EXACT
<1>3. found \subseteq Catalog /\ IsFiniteSet(found)
  BY FS_Subset, SearchAssumption DEF InputsOK, CatalogOK
<1> HIDE DEF found
<1>4. IsFiniteSet(scores)
  <2> DEFINE g == [e \in found |-> score(e)]
  <2>1. DOMAIN g = found /\ scores = {g[e] : e \in found}
    OBVIOUS
  <2> HIDE DEF g, scores
  <2> QED
    BY <1>3, <2>1, ImageFinite
<1>5. PICK top \in scores : \A s \in scores : s <= top
  <2>1. scores \subseteq Int /\ scores # {}
    BY <1>1, <1>2, <1>3
  <2> HIDE DEF scores
  <2> QED
    BY <1>4, <2>1, EndsIn
<1> DEFINE best == {e \in found : score(e) = top}
           counts == {e.count : e \in best}
<1>6. best # {} /\ best \subseteq found
  BY <1>5
<1>7. IsFiniteSet(counts)
  <2> DEFINE g == [e \in best |-> e.count]
  <2>1. DOMAIN g = best /\ counts = {g[e] : e \in best}
    OBVIOUS
  <2>2. IsFiniteSet(best)
    BY <1>3, <1>6, FS_Subset
  <2> HIDE DEF g, counts, best
  <2> QED
    BY <2>1, <2>2, ImageFinite
<1>8. PICK most \in counts : \A n \in counts : n <= most
  <2>1. counts \subseteq Int /\ counts # {}
    BY <1>2, <1>3, <1>6
  <2> HIDE DEF counts
  <2> QED
    BY <1>7, <2>1, EndsIn
<1>9. PICK e \in best : e.count = most
  OBVIOUS
<1>10. \A f \in found : score(f) < score(e) \/ (score(f) = score(e) /\ f.count <= e.count)
  <2> SUFFICES ASSUME NEW f \in found
               PROVE  score(f) < score(e) \/ (score(f) = score(e) /\ f.count <= e.count)
    OBVIOUS
  <2>1. score(f) <= top /\ score(e) = top /\ score(f) \in Int /\ score(e) \in Int
    BY <1>2, <1>3, <1>5, <1>9
  <2>2. score(f) = top => f.count <= e.count
    BY <1>8, <1>9
  <2> HIDE DEF score
  <2> QED
    BY <2>1, <2>2
<1>11. e \in found
  BY <1>6, <1>9
<1> HIDE DEF score, best, counts, scores
<1>12. (CHOOSE x \in found : \A f \in found :
            score(f) < score(x) \/ (score(f) = score(x) /\ f.count <= x.count)) \in found
  BY <1>10, <1>11
<1> QED
  BY <1>1, <1>3, <1>12 DEF score

\* A target has the brand of an entry of the catalog, and the model unless it names the brand.
LEMMA TargetIsOfCatalog ==
    ASSUME NEW i, FieldsOK(i), NEW t \in Targets(i)
    PROVE  \E e \in Catalog : t.brand = e.brand /\ (t.level = "model" => t.model = e.model)
<1>1. PICK k \in DOMAIN i.vehicles : t = ResolveMention(i.vehicles[k], i.category) /\ t # NULL
  BY DEF Targets, ToSet
<1> DEFINE m == i.vehicles[k]
           forms == MentionQueries(m)
           hits == {j \in DOMAIN forms : forms[j] # {} /\ BestMatch(forms[j], i.category) # NULL}
           words == forms[Smallest(hits)]
<1>2. /\ DOMAIN forms = {1, 2} /\ forms[1] = Said(m) /\ forms[2] = m.model \cup m.trim
  BY DEF MentionQueries
<1>3. Said(m) \subseteq Words /\ m.model \cup m.trim \subseteq Said(m)
  BY DEF FieldsOK, Said
<1>4. hits # {} /\ t = ToTarget(words, BestMatch(words, i.category))
  BY <1>1 DEF ResolveMention, First
<1>5. Smallest(hits) \in hits
  <2>1. hits \subseteq Nat
    BY <1>2
  <2> HIDE DEF hits
  <2> QED
    BY <1>4, <2>1, SmallestIn
<1>6. words \in (SUBSET Words) \ {{}} /\ BestMatch(words, i.category) # NULL
  <2>1. words # {} /\ BestMatch(words, i.category) # NULL /\ Smallest(hits) \in {1, 2}
    BY <1>2, <1>5
  <2> HIDE DEF forms, hits, m
  <2> QED
    BY <1>2, <1>3, <2>1
<1> HIDE DEF words
<1>7. BestMatch(words, i.category) \in Catalog
  BY <1>6, BestIs
<1> QED
  BY <1>4, <1>7 DEF ToTarget

\* A score no criterion lowers: it was not asked, or is met to the full.
Full(score) == score = NULL \/ score.closeness = EXACT

\* Outside a bound, however little, a score is not full ...
LEMMA DecayShort ==
    ASSUME NEW gap \in Nat \ {0}, NEW num \in Int, NEW den \in Nat \ {0}
    PROVE  LinearDecay(gap, num, den) # EXACT
<1>1. CASE num <= 0
  BY <1>1 DEF LinearDecay, MISS, EXACT
<1>2. CASE num > 0
  <2> DEFINE x == EXACT * gap * den
             q == x \div num
  <2>1. x \in Nat
    BY DEF EXACT
  <2>2. q \in Nat
    <3> HIDE DEF x
    <3> QED
      BY <1>2, <2>1, QuotientNotNegative
  <2>3. LinearDecay(gap, num, den) =
          IF gap > 0 /\ 1000 - q = 1000 THEN 999 ELSE Largest({0, 1000 - q})
    BY <1>2 DEF LinearDecay, MISS, EXACT
  <2> HIDE DEF q
  <2>4. Largest({0, 1000 - q}) \in {0, 1000 - q}
    <3>1. 1000 - q \in Int
      BY <2>2
    <3> QED
      BY <3>1, LargestOfTwo
  <2> QED
    BY <2>2, <2>3, <2>4 DEF EXACT
<1> QED
  BY <1>1, <1>2

\* ... so a score of a range is full, or of a listing that does not say, exactly when the
\* listing passes the bounds; and then it is no less than that of a listing unknown.
Ranged(score, value, low, high) ==
    /\ Full(score) \/ value = NULL <=> Within(value, low, high)
    /\ Within(value, low, high) => score = NULL \/ score.closeness \in {UNKNOWN_CLOSENESS, EXACT}

LEMMA RangeIsFull ==
    ASSUME NEW low, NEW high, NEW value, Criterion(low, high, value),
           NEW numLow, NEW numHigh, NEW den \in Nat \ {0}, NEW label \in BOOLEAN,
           low # NULL => numLow \in Int, high # NULL => numHigh \in Int
    PROVE  Ranged(RangeOf(low, high, value, numLow, numHigh, den, label), value, low, high)
<1> USE DEF Ranged
<1> DEFINE S == RangeOf(low, high, value, numLow, numHigh, den, label)
<1>1. CASE low = NULL /\ high = NULL
  BY <1>1 DEF RangeOf, RangeScore, Full, Within
<1>2. CASE ~(low = NULL /\ high = NULL) /\ value = NULL
  <2>1. {low, high} # {NULL}
    BY <1>2
  <2>2. S = Score(UNKNOWN_CLOSENESS, label)
    BY <1>2, <2>1 DEF RangeOf, RangeScore
  <2>3. S.closeness = UNKNOWN_CLOSENESS
    BY <2>2 DEF Score
  <2> QED
    BY <1>2, <2>3 DEF Within
<1>3. CASE ~(low = NULL /\ high = NULL) /\ value # NULL
  <2>1. value \in Int /\ (low # NULL => low \in Int) /\ (high # NULL => high \in Int)
    BY <1>3 DEF Criterion, Number
  <2>2. S = IF high # NULL /\ value > high THEN Score(LinearDecay(value - high, numHigh, den), TRUE)
            ELSE IF low # NULL /\ value < low THEN Score(LinearDecay(low - value, numLow, den), TRUE)
            ELSE Score(EXACT, FALSE)
    BY <1>3 DEF RangeOf, RangeScore, Unlabelled
  <2>3. CASE high # NULL /\ value > high
    <3> DEFINE c == LinearDecay(value - high, numHigh, den)
    <3>1. value - high \in Nat \ {0} /\ value - high \in Nat /\ numHigh \in Int
      BY <2>1, <2>3
    <3>2. c # EXACT /\ c \in MISS..EXACT
      BY <3>1, DecayShort, DecayRange
    <3> HIDE DEF c
    <3>3. S = Score(c, TRUE)
      BY <2>2, <2>3 DEF c
    <3>4. S # NULL /\ S.closeness = c
      BY <3>2, <3>3, ScoreGraded DEF Graded
    <3>5. ~Within(value, low, high)
      BY <1>3, <2>1, <2>3 DEF Within
    <3> QED
      BY <1>3, <3>2, <3>4, <3>5 DEF Full
  <2>4. CASE ~(high # NULL /\ value > high) /\ low # NULL /\ value < low
    <3> DEFINE c == LinearDecay(low - value, numLow, den)
    <3>1. low - value \in Nat \ {0} /\ low - value \in Nat /\ numLow \in Int
      BY <2>1, <2>4
    <3>2. c # EXACT /\ c \in MISS..EXACT
      BY <3>1, DecayShort, DecayRange
    <3> HIDE DEF c
    <3>3. S = Score(c, TRUE)
      BY <2>2, <2>4 DEF c
    <3>4. S # NULL /\ S.closeness = c
      BY <3>2, <3>3, ScoreGraded DEF Graded
    <3>5. ~Within(value, low, high)
      BY <1>3, <2>1, <2>4 DEF Within
    <3> QED
      BY <1>3, <3>2, <3>4, <3>5 DEF Full
  <2>5. CASE ~(high # NULL /\ value > high) /\ ~(low # NULL /\ value < low)
    <3>1. S.closeness = EXACT
      BY <2>2, <2>5 DEF Score
    <3>2. Within(value, low, high)
      BY <2>1, <2>5 DEF Within
    <3> QED
      BY <3>1, <3>2 DEF Full
  <2> QED
    BY <2>3, <2>4, <2>5
<1> QED
  BY <1>1, <1>2, <1>3

LEMMA PriceFull ==
    ASSUME NEW asked, NEW row, Criterion(asked.priceMin, asked.priceMax, row.price)
    PROVE  Ranged(PriceScore(asked, row), row.price, asked.priceMin, asked.priceMax)
<1>1. /\ 100 \in Nat \ {0} /\ TRUE \in BOOLEAN
      /\ asked.priceMin # NULL => asked.priceMin * 25 \in Int
      /\ asked.priceMax # NULL => asked.priceMax * 25 \in Int
  BY DEF Criterion, Number
<1>2. PriceScore(asked, row) =
        RangeOf(asked.priceMin, asked.priceMax, row.price,
                asked.priceMin * 25, asked.priceMax * 25, 100, TRUE)
  BY DEF PriceScore, PRICE_TOLERANCE, RangeOf
<1> QED
  BY <1>1, <1>2, RangeIsFull, Zenon

LEMMA KmFull ==
    ASSUME NEW asked, NEW row, Criterion(asked.kmMin, asked.kmMax, row.km)
    PROVE  Ranged(KmScore(asked, row), row.km, asked.kmMin, asked.kmMax)
<1>1. /\ 100 \in Nat \ {0} /\ TRUE \in BOOLEAN
      /\ asked.kmMin # NULL => asked.kmMin * 50 \in Int
      /\ asked.kmMax # NULL => asked.kmMax * 50 \in Int
  BY DEF Criterion, Number
<1>2. KmScore(asked, row) =
        RangeOf(asked.kmMin, asked.kmMax, row.km, asked.kmMin * 50, asked.kmMax * 50, 100, TRUE)
  BY DEF KmScore, KM_TOLERANCE, RangeOf
<1> QED
  BY <1>1, <1>2, RangeIsFull, ZenonT(30)

LEMMA YearFull ==
    ASSUME NEW asked, NEW row, Criterion(asked.yearMin, asked.yearMax, row.year)
    PROVE  Ranged(YearScore(asked, row), row.year, asked.yearMin, asked.yearMax)
<1>1. 5 \in Int /\ 1 \in Nat \ {0} /\ FALSE \in BOOLEAN
  OBVIOUS
<1>2. YearScore(asked, row) =
        RangeOf(asked.yearMin, asked.yearMax, row.year, 5, 5, 1, FALSE)
  BY DEF YearScore, YEAR_TOLERANCE, RangeOf
<1> QED
  BY <1>1, <1>2, RangeIsFull, Zenon

\* Of models asked for, a listing meets one to the full when it has its brand and model.
LEMMA VehicleFull ==
    ASSUME NEW asked, NEW row, \A t \in asked.targets : t.level = "model"
    PROVE  Full(VehicleScore(asked, row)) <=>
             \/ asked.targets = {}
             \/ \E t \in asked.targets : row.brand = t.brand /\ row.model = t.model
<1> DEFINE degrees == {TargetCloseness(t, row) : t \in asked.targets}
           closeness == Largest(degrees)
           label == \/ closeness = SAME_MODEL_OTHER_TRIM /\ row.trim # NULL
                    \/ closeness < SAME_MODEL_OTHER_TRIM /\ row.model # NULL
<1>1. VehicleScore(asked, row) = IF asked.targets = {} THEN NULL ELSE Score(closeness, label)
  BY DEF VehicleScore
<1>2. CASE asked.targets = {}
  BY <1>1, <1>2 DEF Full
<1>3. CASE asked.targets # {}
  <2>1. degrees \subseteq Degrees /\ degrees # {}
    BY <1>3 DEF Degrees, TargetCloseness, MISS, EXACT, SAME_BRAND_OTHER_MODEL, SAME_MODEL_OTHER_TRIM
  <2>2. 1000 \in degrees <=> \E t \in asked.targets : row.brand = t.brand /\ row.model = t.model
    BY DEF TargetCloseness, MISS, EXACT, SAME_BRAND_OTHER_MODEL, SAME_MODEL_OTHER_TRIM
  <2> HIDE DEF degrees
  <2>3. closeness \in degrees /\ \A d \in degrees : d <= closeness
    BY <2>1, LargestDegree, Zenon
  <2>4. label \in BOOLEAN
    OBVIOUS
  <2> HIDE DEF closeness, label
  <2>5. closeness \in MISS..EXACT
    BY <2>1, <2>3 DEF MISS, EXACT, Degrees
  <2>6. VehicleScore(asked, row) # NULL /\ VehicleScore(asked, row).closeness = closeness
    BY <1>1, <1>3, <2>4, <2>5, ScoreGraded DEF Graded
  <2>7. closeness = 1000 <=> 1000 \in degrees
    <3>1. 1000 \in degrees => 1000 <= closeness
      BY <2>3
    <3>2. closeness \in Degrees
      BY <2>1, <2>3
    <3>3. 1000 <= closeness => closeness = 1000
      BY <3>2 DEF Degrees
    <3> QED
      BY <2>3, <3>1, <3>3
  <2> QED
    BY <1>3, <2>2, <2>6, <2>7 DEF Full, EXACT
<1> QED
  BY <1>2, <1>3

\* Of the cities asked for, a listing meets one to the full when it is there.
LEMMA CityFull ==
    ASSUME NEW asked, NEW row, asked.cities \subseteq Cities, asked.cities # {},
           row.place \in Places \cup {NULL}
    PROVE  Full(CityScore(asked, row)) <=> \E c \in asked.cities : c.name = row.city
<1> DEFINE places == {c.place : c \in asked.cities} \ {NULL}
           away == Smallest({OTHER_CITY_CEILING,
                             LinearDecay(Smallest({Distance(p, row.place) : p \in places}), CITY_RADIUS_KM, 1)})
           named == \E c \in asked.cities : c.name = row.city
           S == CityScore(asked, row)
<1>1. S = CASE asked.cities = {} -> NULL
            [] named -> Score(EXACT, FALSE)
            [] OTHER -> IF row.place = NULL \/ places = {} THEN Score(MISS, TRUE) ELSE Score(away, TRUE)
  BY DEF CityScore, Unlabelled
<1>2. places \subseteq Places
  BY DEF Places
<1>3. row.place # NULL /\ places # {} => away \in MISS..OTHER_CITY_CEILING
  <2> HIDE DEF places
  <2> QED
    BY <1>2, AwayIsNear
<1> HIDE DEF places, away, named, S
<1>4. CASE named
  <2>1. S = Score(EXACT, FALSE)
    BY <1>1, <1>4
  <2>2. S.closeness = EXACT
    BY <2>1 DEF Score
  <2> QED
    BY <1>4, <2>2 DEF Full, named, S
<1>5. CASE ~named
  <2>1. PICK c \in MISS..OTHER_CITY_CEILING : S = Score(c, TRUE)
    <3>1. MISS \in MISS..OTHER_CITY_CEILING
      BY DEF MISS, OTHER_CITY_CEILING
    <3>2. S = IF row.place = NULL \/ places = {} THEN Score(MISS, TRUE) ELSE Score(away, TRUE)
      BY <1>1, <1>5
    <3> QED
      BY <1>3, <3>1, <3>2
  <2>2. c \in MISS..EXACT /\ c # EXACT
    BY DEF MISS, OTHER_CITY_CEILING, EXACT
  <2>3. S # NULL /\ S.closeness = c
    BY <2>1, <2>2, ScoreGraded DEF Graded
  <2> QED
    BY <1>5, <2>2, <2>3 DEF Full, named, S
<1> QED
  BY <1>4, <1>5

\* A choice is met to the full when the listing says just that.
LEMMA ChoiceFull ==
    ASSUME NEW wanted, NEW value
    PROVE  Full(ChoiceScore({wanted} \ {NULL}, value)) <=> wanted \in {NULL, value}
<1> DEFINE S == ChoiceScore({wanted} \ {NULL}, value)
<1>1. {MISS, EXACT, UNKNOWN_CLOSENESS} \subseteq MISS..EXACT /\ {TRUE, FALSE} \subseteq BOOLEAN
  BY DEF MISS, EXACT, UNKNOWN_CLOSENESS
<1>2. CASE wanted = NULL
  BY <1>2 DEF ChoiceScore, Full
<1>3. CASE wanted # NULL /\ value = NULL
  <2>1. {wanted} \ {NULL} # {}
    BY <1>3
  <2>4. S = Score(UNKNOWN_CLOSENESS, FALSE)
    BY <1>3, <2>1 DEF ChoiceScore, Unlabelled
  <2> HIDE DEF S
  <2>2. S # NULL /\ S.closeness = UNKNOWN_CLOSENESS
    BY <1>1, <2>4, ScoreGraded DEF Graded
  <2>3. ~Full(S)
    BY <2>2 DEF Full, UNKNOWN_CLOSENESS, EXACT
  <2> QED
    BY <1>3, <2>3 DEF S
<1>4. CASE wanted # NULL /\ value # NULL
  <2>1. S = IF value = wanted THEN Score(EXACT, FALSE) ELSE Score(MISS, TRUE)
    BY <1>4 DEF ChoiceScore, Unlabelled
  <2> HIDE DEF S
  <2>2. S # NULL /\ S.closeness = IF value = wanted THEN EXACT ELSE MISS
    BY <1>1, <2>1, ScoreGraded DEF Graded
  <2>3. Full(S) <=> value = wanted
    BY <2>2 DEF Full, MISS, EXACT
  <2> QED
    BY <1>4, <2>3 DEF S
<1> QED
  BY <1>2, <1>3, <1>4

\* A heap whose parts are m times as large holds m times as much: here 400, the cut-off.
PieceOf(S, weight, p, h) ==
    \E x \in S : \E n \in 1..weight[x] : \E r \in 1..400 :
        p = <<<<x, n>>, r>> /\ h = <<x, 400 * (n - 1) + r>>

LEMMA HeapOfCutoff ==
    ASSUME NEW S, IsFiniteSet(S), NEW weight, NEW gain,
           \A x \in S : weight[x] \in Nat /\ gain[x] \in Nat /\ 400 * weight[x] <= gain[x]
    PROVE  400 * Cardinality(Heap(S, weight)) <= Cardinality(Heap(S, gain))
<1> DEFINE W == Heap(S, weight)
           G == Heap(S, gain)
           pairs == W \X (1..400)
           into(p) == <<p[1][1], 400 * (p[1][2] - 1) + p[2]>>
           f == [p \in pairs |-> into(p)]
<1>1. IsFiniteSet(W) /\ IsFiniteSet(G)
  BY HeapFinite
<1>2. \A h \in W : \E x \in S : \E n \in 1..weight[x] : h = <<x, n>>
  BY DEF Heap
<1>3. \A x \in S : \A n \in 1..gain[x] : <<x, n>> \in G
  BY DEF Heap
<1> HIDE DEF W, G
<1>4. ASSUME NEW p \in pairs
      PROVE  PieceOf(S, weight, p, into(p))
  <2>1. PICK x \in S : \E n \in 1..weight[x] : p[1] = <<x, n>>
    BY <1>2
  <2>2. PICK n \in 1..weight[x] : p[1] = <<x, n>>
    BY <2>1
  <2>3. PICK r \in 1..400 : p = <<p[1], r>> /\ p[2] = r
    OBVIOUS
  <2>4. p[1][1] = x /\ p[1][2] = n
    BY <2>2
  <2>5. into(p) = <<x, 400 * (n - 1) + r>>
    BY <2>3, <2>4
  <2> HIDE DEF into, pairs
  <2> QED
    BY <2>2, <2>3, <2>5 DEF PieceOf
<1> HIDE DEF into, pairs
<1>5. ASSUME NEW p \in pairs PROVE into(p) \in G
  <2>1. PieceOf(S, weight, p, into(p))
    BY <1>4, Zenon
  <2>2. PICK x \in S : \E n \in 1..weight[x] : \E r \in 1..400 :
                p = <<<<x, n>>, r>> /\ into(p) = <<x, 400 * (n - 1) + r>>
    BY <2>1 DEF PieceOf
  <2>3. PICK n \in 1..weight[x] : \E r \in 1..400 :
                p = <<<<x, n>>, r>> /\ into(p) = <<x, 400 * (n - 1) + r>>
    BY <2>2
  <2>4. PICK r \in 1..400 : p = <<<<x, n>>, r>> /\ into(p) = <<x, 400 * (n - 1) + r>>
    BY <2>3
  <2>5. weight[x] \in Nat /\ gain[x] \in Nat /\ 400 * weight[x] <= gain[x]
    OBVIOUS
  <2>6. 400 * (n - 1) + r \in 1..gain[x]
    BY <2>5
  <2> QED
    BY <1>3, <2>4, <2>6
<1>6. ASSUME NEW p \in pairs, NEW q \in pairs, into(p) = into(q) PROVE p = q
  <2>0. PieceOf(S, weight, p, into(p)) /\ PieceOf(S, weight, q, into(q))
    BY <1>4, Zenon
  <2>1. PICK x \in S : \E n \in 1..weight[x] : \E r \in 1..400 :
                p = <<<<x, n>>, r>> /\ into(p) = <<x, 400 * (n - 1) + r>>
    BY <2>0 DEF PieceOf
  <2>2. PICK n \in 1..weight[x] : \E r \in 1..400 :
                p = <<<<x, n>>, r>> /\ into(p) = <<x, 400 * (n - 1) + r>>
    BY <2>1
  <2>3. PICK r \in 1..400 : p = <<<<x, n>>, r>> /\ into(p) = <<x, 400 * (n - 1) + r>>
    BY <2>2
  <2>4. PICK y \in S : \E o \in 1..weight[y] : \E t \in 1..400 :
                q = <<<<y, o>>, t>> /\ into(q) = <<y, 400 * (o - 1) + t>>
    BY <2>0 DEF PieceOf
  <2>5. PICK o \in 1..weight[y] : \E t \in 1..400 :
                q = <<<<y, o>>, t>> /\ into(q) = <<y, 400 * (o - 1) + t>>
    BY <2>4
  <2>6. PICK t \in 1..400 : q = <<<<y, o>>, t>> /\ into(q) = <<y, 400 * (o - 1) + t>>
    BY <2>5
  <2> DEFINE a == 400 * (n - 1) + r
             b == 400 * (o - 1) + t
  <2>7. x = y /\ a = b
    <3>1. <<x, a>> = <<y, b>>
      BY <1>6, <2>3, <2>6
    <3> HIDE DEF a, b
    <3> QED
      BY <3>1
  <2>8. weight[x] \in Nat /\ weight[y] \in Nat
    OBVIOUS
  <2>9. n \in Int /\ o \in Int /\ r \in Int /\ t \in Int
    BY <2>8
  <2>10. 1 <= r /\ r <= 400 /\ 1 <= t /\ t <= 400
    OBVIOUS
  <2>11. n = o /\ r = t
    BY <2>7, <2>9, <2>10
  <2> QED
    BY <2>3, <2>6, <2>7, <2>11
<1>7. f \in Injection(pairs, G)
  <2>1. f \in [pairs -> G]
    BY <1>5
  <2>2. \A p, q \in pairs : f[p] = f[q] => p = q
    BY <1>6
  <2> HIDE DEF f
  <2> QED
    BY <2>1, <2>2 DEF Injection, IsInjective
<1>8. IsFiniteSet(pairs) /\ Cardinality(pairs) = Cardinality(W) * 400
  <2>1. 400 \in Nat
    OBVIOUS
  <2>2. IsFiniteSet(1..400) /\ Cardinality(1..400) = 400
    BY <2>1, OneToFinite
  <2> QED
    BY <1>1, <2>2, FS_Product DEF pairs
<1>9. Cardinality(pairs) <= Cardinality(G)
  <2> HIDE DEF f
  <2> QED
    BY <1>1, <1>7, FS_Injection
<1>10. Cardinality(W) \in Nat
  BY <1>1, FS_CardinalityType
<1> QED
  BY <1>8, <1>9, <1>10 DEF W, G

\* A listing that is nowhere far from what was asked, or does not say, passes the cut-off.
LEMMA NearPasses ==
    ASSUME NEW i, BoundsOK(i), FieldsOK(i), NEW id \in DOMAIN Listings,
           \A c \in Stated(ScoresFor(i, id)) :
              ScoresFor(i, id)[c].closeness \in {UNKNOWN_CLOSENESS, EXACT}
    PROVE  PassesCutoff(RankedFor(i, id))
<1> DEFINE s == ScoresFor(i, id)
           S == Stated(s)
           a == Cardinality(Heap(S, GainOf(s)))
           d == Cardinality(Heap(S, Weight))
<1>1. RankedFor(i, id).match = Match(s)
  BY DEF RankedFor, Ranked, ScoresFor
<1>2. IsFiniteSet(S) /\ S \subseteq DOMAIN Weight
  BY StatedAlike, WeightsFinite, FS_Subset
<1>3. ASSUME NEW c \in S
      PROVE  /\ Weight[c] \in Nat /\ Weight[c] > 0
             /\ GainOf(s)[c] \in Nat /\ 400 * Weight[c] <= GainOf(s)[c]
  <2> DEFINE w == Weight[c]
             k == s[c].closeness
  <2>1. w \in Nat /\ w > 0
    BY <1>2, WeightsPositive
  <2>2. k \in {500, 1000}
    BY DEF UNKNOWN_CLOSENESS, EXACT
  <2>3. GainOf(s)[c] = w * k
    BY DEF GainOf
  <2> HIDE DEF w, k
  <2>4. w * k \in Nat /\ 400 * w <= w * k
    BY <2>1, <2>2
  <2> QED
    BY <2>1, <2>3, <2>4 DEF w
<1> HIDE DEF s
<1>4. CASE S = {}
  BY <1>1, <1>2, <1>3, <1>4, MatchIs DEF PassesCutoff
<1>5. CASE S # {}
  <2>1. Match(s) = a \div d
    BY <1>2, <1>3, <1>5, MatchIs
  <2>2. a \in Nat /\ d \in Nat /\ d > 0 /\ 400 * d <= a
    <3>1. d \in Nat /\ d > 0
      BY <1>2, <1>3, <1>5, SumsGrow
    <3>2. a \in Nat
      BY <1>2, <1>3, SumsGrow
    <3>3. 400 * d <= a
      BY <1>2, <1>3, HeapOfCutoff
    <3> QED
      BY <3>1, <3>2, <3>3
  <2> HIDE DEF a, d
  <2>3. a \div d \in Int /\ ~(a \div d < 400)
    <3>1. a \div d \in Int
      BY <2>2
    <3>2. (a \div d) < 400 => a < 400 * d
      BY <2>2, QuotientBelow
    <3> QED
      BY <2>2, <3>1, <3>2
  <2> QED
    BY <1>1, <2>1, <2>3 DEF PassesCutoff, MIN_MATCH_SCORE
<1> QED
  BY <1>4, <1>5

-------------------------------------------------------------------------------
\* What a filter asks of a listing beside its bounds.
Unranged(row, f) ==
    /\ f.category \in {NULL, row.category}
    /\ f.sources = {} \/ row.source \in f.sources
    /\ f.priceTypes = {} \/ row.priceType \in f.priceTypes \cup {NULL}
    /\ f.documents = {} \/ row.documents \in f.documents \cup {NULL}
    /\ IF f.brands # {} THEN row.brand \in f.brands
       ELSE f.text = {} \/ WordSimilarity(f.text, row.title) >= MIN_TEXT_SIMILARITY
    /\ f.onlyBelow => row.diff # NULL /\ row.diff <= CHEAP_DIFF

LEMMA ConditionsAre == \A row, f : Conditions(row, f) <=> InsideBounds(row, f) /\ Unranged(row, f)
BY DEF Conditions, InsideBounds, Unranged

\* A listing inside the bounds a search states.
AsStated(i, row) ==
    /\ Within(TrustedPrice(row), i.priceMin, i.priceMax)
    /\ Within(row.km, i.kmMin, i.kmMax)
    /\ Within(row.year, i.yearMin, i.yearMax)

\* The models, and the gearbox, that a count leaves.
Counted(scope, row) ==
    /\ scope.models = {} \/ row.model \in scope.models
    /\ scope.gearbox \in {NULL, row.gearbox}

\* The fields of a filter that are no bounds, and of a scope.
Others == {"category", "brands", "text", "sources", "priceTypes", "documents", "onlyBelow"}

LEMMA SameOthers ==
    ASSUME NEW f, NEW g, \A x \in Others : f[x] = g[x], NEW row
    PROVE  Unranged(row, f) <=> Unranged(row, g)
<1>1. /\ f.category = g.category /\ f.brands = g.brands /\ f.text = g.text
      /\ f.sources = g.sources /\ f.priceTypes = g.priceTypes /\ f.documents = g.documents
      /\ f.onlyBelow = g.onlyBelow
  BY DEF Others
<1> QED
  BY <1>1 DEF Unranged

\* What is counted for a city: the bounds as stated, and all else as the search asks.
LEMMA CityScopeIs ==
    ASSUME NEW i, NEW id \in DOMAIN Listings, NEW row, row = Listings[id],
           NEW scope, scope = Scope(i)
    PROVE  id \in InScope(scope, "city") <=>
             AsStated(i, row) /\ Unranged(row, GuardRails(i)) /\ Counted(scope, row)
<1> DEFINE g == GuardRails(i)
           e == ExactFilter(i)
           f == [e EXCEPT !.category = IF "city" = "category" THEN NULL ELSE @,
                          !.sources = IF "city" = "source" THEN {} ELSE @]
<1>1. scope.filter = e
  BY DEF Scope
<1>2. DOMAIN g = Others \cup {"priceFloor", "priceCeiling", "kmFloor", "kmCeiling", "yearFloor", "yearCeiling"}
  BY DEF GuardRails, Others
<1>3. e = [g EXCEPT !.priceFloor = i.priceMin, !.priceCeiling = i.priceMax, !.kmFloor = i.kmMin,
                    !.kmCeiling = i.kmMax, !.yearFloor = i.yearMin, !.yearCeiling = i.yearMax]
  BY DEF ExactFilter
<1> HIDE DEF g, e
<1>4. /\ DOMAIN e = DOMAIN g /\ \A x \in Others : e[x] = g[x]
      /\ e.priceFloor = i.priceMin /\ e.priceCeiling = i.priceMax /\ e.kmFloor = i.kmMin
      /\ e.kmCeiling = i.kmMax /\ e.yearFloor = i.yearMin /\ e.yearCeiling = i.yearMax
  BY <1>2, <1>3 DEF Others
<1>5. f.category = e.category /\ f.sources = e.sources
  BY <1>2, <1>4 DEF Others
<1>6. \A x \in DOMAIN e \ {"category", "sources"} : f[x] = e[x]
  OBVIOUS
<1>7. id \in InScope(scope, "city") <=> Conditions(row, f) /\ Counted(scope, row)
  BY <1>1 DEF InScope, Counted
<1> HIDE DEF f
<1>8. /\ f.priceFloor = i.priceMin /\ f.priceCeiling = i.priceMax /\ f.kmFloor = i.kmMin
      /\ f.kmCeiling = i.kmMax /\ f.yearFloor = i.yearMin /\ f.yearCeiling = i.yearMax
  BY <1>2, <1>4, <1>6
<1>9. \A x \in Others : f[x] = g[x]
  BY <1>2, <1>4, <1>5, <1>6 DEF Others
<1>10. InsideBounds(row, f) <=> AsStated(i, row)
  BY <1>8 DEF InsideBounds, AsStated
<1>11. Unranged(row, f) <=> Unranged(row, g)
  BY <1>9, SameOthers
<1> QED
  BY <1>7, <1>10, <1>11, ConditionsAre DEF g

\* The range of a column spreads over at least that, of the cities searched.
LEMMA RangeScopeHolds ==
    ASSUME NEW i, NEW id \in DOMAIN Listings, NEW row, row = Listings[id],
           NEW scope, scope = Scope(i), Unranged(row, GuardRails(i)), Counted(scope, row),
           scope.cities = {} \/ row.city \in scope.cities
    PROVE  id \in InScope([scope EXCEPT !.filter = Unbounded(@)], NULL)
<1> DEFINE g == GuardRails(i)
           e == ExactFilter(i)
           u == Unbounded(e)
           wide == [scope EXCEPT !.filter = Unbounded(@)]
           f == [u EXCEPT !.category = IF NULL = "category" THEN NULL ELSE @,
                          !.sources = IF NULL = "source" THEN {} ELSE @]
<1>1. /\ scope.filter = e /\ DOMAIN scope = {"filter", "models", "cities", "gearbox"}
  BY DEF Scope
<1>2. DOMAIN g = Others \cup {"priceFloor", "priceCeiling", "kmFloor", "kmCeiling", "yearFloor", "yearCeiling"}
  BY DEF GuardRails, Others
<1>3. e = [g EXCEPT !.priceFloor = i.priceMin, !.priceCeiling = i.priceMax, !.kmFloor = i.kmMin,
                    !.kmCeiling = i.kmMax, !.yearFloor = i.yearMin, !.yearCeiling = i.yearMax]
  BY DEF ExactFilter
<1> HIDE DEF g, e
<1>4. DOMAIN e = DOMAIN g /\ \A x \in Others : e[x] = g[x]
  BY <1>2, <1>3 DEF Others
<1>5. /\ DOMAIN u = DOMAIN g /\ \A x \in Others : u[x] = g[x]
      /\ u.priceFloor = NULL /\ u.priceCeiling = NULL /\ u.kmFloor = NULL
      /\ u.kmCeiling = NULL /\ u.yearFloor = NULL /\ u.yearCeiling = NULL
  BY <1>2, <1>4 DEF Unbounded, Others
<1>6. /\ wide.filter = u /\ wide.models = scope.models /\ wide.cities = scope.cities
      /\ wide.gearbox = scope.gearbox
  BY <1>1
<1> HIDE DEF u, wide
<1>7. id \in InScope(wide, NULL) <=>
        /\ Conditions(row, f)
        /\ NULL = "model" \/ wide.models = {} \/ row.model \in wide.models
        /\ NULL = "city" \/ wide.cities = {} \/ row.city \in wide.cities
        /\ NULL = "gearbox" \/ wide.gearbox \in {NULL, row.gearbox}
  BY <1>6 DEF InScope
<1>8. f.category \in {NULL, u.category} /\ f.sources \in {{}, u.sources}
  BY <1>2, <1>5 DEF Others
<1>9. \A x \in DOMAIN u \ {"category", "sources"} : f[x] = u[x]
  OBVIOUS
<1> HIDE DEF f
<1>10. /\ f.priceFloor = NULL /\ f.priceCeiling = NULL /\ f.kmFloor = NULL
       /\ f.kmCeiling = NULL /\ f.yearFloor = NULL /\ f.yearCeiling = NULL
  BY <1>2, <1>5, <1>9
<1>11. InsideBounds(row, f)
  BY <1>10 DEF InsideBounds, Within
<1>12. /\ f.brands = g.brands /\ f.text = g.text /\ f.priceTypes = g.priceTypes
       /\ f.documents = g.documents /\ f.onlyBelow = g.onlyBelow
       /\ f.category \in {NULL, g.category} /\ f.sources \in {{}, g.sources}
  BY <1>2, <1>5, <1>8, <1>9 DEF Others
<1>13. Unranged(row, f)
  BY <1>12 DEF Unranged, g
<1> QED
  BY <1>6, <1>7, <1>11, <1>13, ConditionsAre DEF Counted, wide

-------------------------------------------------------------------------------
\* The listings a search finds, and that they all fit.
FoundBy(i) == {id \in DOMAIN Listings : Conditions(Listings[id], GuardRails(i))}
Fitting(i) == Cardinality(FoundBy(i)) <= MAX_CANDIDATES /\ Cardinality(FoundBy(i)) <= MAX_RESULTS

LEMMA FoundFinite == \A i : IsFiniteSet(FoundBy(i)) /\ Cardinality(FoundBy(i)) \in Nat
BY SearchAssumption, FS_Subset, FS_CardinalityType DEF InputsOK, TableOK, FoundBy

\* When they fit, every one is a candidate.
LEMMA AllAreCandidates ==
    ASSUME NEW i, Fitting(i), NEW id \in DOMAIN Listings
    PROVE  Seen(i, id) \in FindCandidates(GuardRails(i), {}) <=> id \in FoundBy(i)
<1> DEFINE found == {x \in DOMAIN Listings \ {} : Conditions(Listings[x], GuardRails(i))}
           deal(x) == IF Listings[x].deal = NULL THEN -1 ELSE Listings[x].deal
           before(x) == {o \in found : deal(o) > deal(x) \/ (deal(o) = deal(x) /\ o < x)}
           best == {x \in found : Cardinality(before(x)) < MAX_CANDIDATES}
<1>1. found = FoundBy(i)
  BY DEF FoundBy
<1>2. GuardRails(i).text = TextOf(i)
  BY DEF GuardRails
<1>3. FindCandidates(GuardRails(i), {}) = {Seen(i, x) : x \in best}
  BY <1>2 DEF FindCandidates, Seen
<1>4. ASSUME NEW x \in found PROVE Cardinality(before(x)) < MAX_CANDIDATES
  <2>1. x \in DOMAIN Listings /\ x \in Int /\ MAX_CANDIDATES \in Nat
    BY SearchAssumption DEF InputsOK, TableOK
  <2>2. deal(x) \in Int
    BY <2>1, RowOf DEF Number
  <2> HIDE DEF deal
  <2>3. x \notin before(x) /\ before(x) \subseteq found
    BY <2>1, <2>2
  <2> HIDE DEF before, found
  <2>4. /\ Cardinality(before(x)) \in Nat /\ Cardinality(found) \in Nat
        /\ Cardinality(before(x)) < Cardinality(found)
    <3>1. IsFiniteSet(found) /\ before(x) # found
      BY <1>1, <2>3, FoundFinite
    <3> QED
      BY <2>3, <3>1, FS_Subset, FS_CardinalityType
  <2> QED
    BY <1>1, <2>1, <2>4 DEF Fitting
<1>5. best = found
  BY <1>4
<1> HIDE DEF best, found
<1>6. \A a, b \in DOMAIN Listings : Seen(i, a) = Seen(i, b) => a = b
  <2>1. \A a \in DOMAIN Listings : Seen(i, a).id = a
    BY SeenAs DEF Seen
  <2> QED
    BY <2>1
<1>7. found \subseteq DOMAIN Listings
  BY <1>1 DEF FoundBy
<1> QED
  BY <1>1, <1>3, <1>5, <1>6, <1>7

\* When they fit, the results are those that pass the cut-off, and no others.
LEMMA AllAreShown ==
    ASSUME NEW i, BoundsOK(i), FieldsOK(i), Fitting(i)
    PROVE  /\ \A r \in ToSet(Results(i, {})) : r.id \in DOMAIN Listings
           /\ \A id \in DOMAIN Listings :
                 (\E r \in ToSet(Results(i, {})) : r.id = id) <=>
                   id \in FoundBy(i) /\ PassesCutoff(RankedFor(i, id))
<1> DEFINE K == Kept(i, {})
           R == Results(i, {})
           ranking == Rank(RankingQuery(i), FindCandidates(GuardRails(i), {}), Now)
<1>1. \A id \in DOMAIN Listings : RankedFor(i, id).id = id /\ RowOfRank(i, id).listing = RankedFor(i, id)
  BY RanksAreNumbers DEF RowOfRank
<1>2. K = {RowOfRank(i, id) : id \in {id \in FoundBy(i) : PassesCutoff(RankedFor(i, id))}}
  <2>1. {id \in DOMAIN Listings : Seen(i, id) \in FindCandidates(GuardRails(i), {})} = FoundBy(i)
    BY AllAreCandidates DEF FoundBy
  <2>2. K = {k \in {RowOfRank(i, id) : id \in FoundBy(i)} : PassesCutoff(k.listing)}
    BY <2>1 DEF Kept
  <2>3. FoundBy(i) \subseteq DOMAIN Listings
    BY DEF FoundBy
  <2> HIDE DEF K
  <2> QED
    BY <1>1, <2>2, <2>3
<1>3. FoundBy(i) \subseteq DOMAIN Listings
  BY DEF FoundBy
<1> HIDE DEF K
<1>4. \A id \in DOMAIN Listings :
        RowOfRank(i, id) \in K <=> id \in FoundBy(i) /\ PassesCutoff(RankedFor(i, id))
  BY <1>1, <1>2, <1>3
<1>5. Cardinality(K) \in Nat /\ Cardinality(K) <= MAX_RESULTS
  <2> DEFINE rows == {RowOfRank(i, id) : id \in FoundBy(i)}
             f == [id \in FoundBy(i) |-> RowOfRank(i, id)]
  <2>1. DOMAIN f = FoundBy(i) /\ rows = {f[id] : id \in FoundBy(i)}
    OBVIOUS
  <2>2. K \subseteq rows
    BY <1>2
  <2> HIDE DEF f, rows
  <2>3. IsFiniteSet(rows) /\ Cardinality(rows) <= Cardinality(FoundBy(i))
    BY <2>1, FoundFinite, ImageFinite
  <2>4. /\ Cardinality(K) \in Nat /\ Cardinality(rows) \in Nat /\ Cardinality(FoundBy(i)) \in Nat
        /\ Cardinality(K) <= Cardinality(rows)
    BY <2>2, <2>3, FoundFinite, FS_Subset, FS_CardinalityType
  <2>5. MAX_RESULTS \in Nat
    BY SearchAssumption DEF InputsOK
  <2> QED
    BY <2>3, <2>4, <2>5 DEF Fitting
<1>6. /\ R = Upto(ranking, MAX_RESULTS) /\ MAX_RESULTS \in Nat
      /\ ranking = [p \in 1..Cardinality(K) |-> ranking[p]]
      /\ \A p \in 1..Cardinality(K) : \E k \in K : PlaceIn(K, k) = p /\ ranking[p] = k.listing
  <2>1. R = Upto(ranking, MAX_RESULTS) /\ MAX_RESULTS \in Nat
    BY SearchAssumption DEF InputsOK, Results
  <2>2. /\ DOMAIN ranking = 1..Cardinality(K) /\ ranking = [p \in DOMAIN ranking |-> ranking[p]]
        /\ \A p \in DOMAIN ranking : \E k \in K : PlaceIn(K, k) = p /\ ranking[p] = k.listing
    BY RankIs DEF K
  <2> HIDE DEF ranking, R
  <2> QED
    BY <2>1, <2>2
<1> HIDE DEF ranking, R
<1>7. DOMAIN R = 1..Cardinality(K) /\ \A p \in DOMAIN R : R[p] = ranking[p]
  <2> DEFINE n == Cardinality(K)
  <2>1. n \in Nat /\ n <= MAX_RESULTS
    BY <1>5
  <2>2. ranking = [p \in 1..n |-> ranking[p]] /\ MAX_RESULTS \in Nat
    BY <1>6
  <2> HIDE DEF n
  <2>3. /\ n <= MAX_RESULTS => DOMAIN Upto(ranking, MAX_RESULTS) = 1..n
        /\ \A p \in DOMAIN Upto(ranking, MAX_RESULTS) : Upto(ranking, MAX_RESULTS)[p] = ranking[p]
    BY <2>1, <2>2, UptoIs
  <2> QED
    BY <1>6, <2>1, <2>3 DEF n
<1>8. \A r \in ToSet(R) : \E id \in DOMAIN Listings : RowOfRank(i, id) \in K /\ r = RankedFor(i, id)
  <2> SUFFICES ASSUME NEW p \in DOMAIN R
               PROVE  \E id \in DOMAIN Listings : RowOfRank(i, id) \in K /\ R[p] = RankedFor(i, id)
    BY DEF ToSet
  <2>1. PICK k \in K : R[p] = k.listing
    BY <1>6, <1>7
  <2>2. PICK id \in FoundBy(i) : k = RowOfRank(i, id)
    BY <1>2
  <2> QED
    BY <1>1, <1>3, <2>1, <2>2
<1>9. ASSUME NEW id \in DOMAIN Listings, RowOfRank(i, id) \in K
      PROVE  RankedFor(i, id) \in ToSet(R)
  <2> DEFINE k == RowOfRank(i, id)
             p == PlaceIn(K, k)
  <2>1. Keyed(K)
    BY KeptKeyed DEF K
  <2>2. p \in 1..Cardinality(K) /\ \A l \in K : PlaceIn(K, l) = p => l = k
    BY <1>9, <2>1, PlacesDiffer
  <2> HIDE DEF p
  <2>3. p \in DOMAIN R /\ R[p] = ranking[p]
    BY <1>7, <2>2
  <2>4. PICK l \in K : PlaceIn(K, l) = p /\ ranking[p] = l.listing
    BY <1>6, <2>2
  <2>5. R[p] = RankedFor(i, id)
    BY <1>1, <2>2, <2>3, <2>4
  <2> QED
    BY <2>3, <2>5 DEF ToSet
<1> QED
  BY <1>1, <1>4, <1>8, <1>9 DEF R

-------------------------------------------------------------------------------
\* The search for one city, from another that differs only in its cities.
InCity(j, city) == [j EXCEPT !.cities = {city}]

OneCity(i, j, city) ==
    /\ \A f \in DOMAIN NoIntent \ {"cities"} : i[f] = j[f]
    /\ i.cities = {city}

LEMMA InOneCity ==
    ASSUME NEW j, BoundsOK(j), FieldsOK(j), NEW city, NEW i, i = InCity(j, city)
    PROVE  OneCity(i, j, city) /\ DOMAIN i = DOMAIN j /\ BoundsOK(i) /\ FieldsOK(i)
<1>1. DOMAIN NoIntent \subseteq DOMAIN j /\ "cities" \in DOMAIN NoIntent
  BY DEF FieldsOK, NoIntent
<1>2. DOMAIN i = DOMAIN j /\ i.cities = {city} /\ \A f \in DOMAIN j \ {"cities"} : i[f] = j[f]
  BY <1>1 DEF InCity
<1>3. OneCity(i, j, city)
  BY <1>1, <1>2 DEF OneCity
<1>4. BoundsOK(i)
  BY <1>2 DEF BoundsOK, Bounds
<1>5. i.sort = j.sort /\ i.text = j.text /\ i.vehicles = j.vehicles
  BY <1>3 DEF OneCity, NoIntent
<1>6. FieldsOK(i)
  BY <1>2, <1>5 DEF FieldsOK
<1> QED
  BY <1>2, <1>3, <1>4, <1>6

LEMMA OneCityAsks ==
    ASSUME NEW i, NEW j, NEW city, OneCity(i, j, city)
    PROVE  /\ Targets(i) = Targets(j) /\ TextOf(i) = TextOf(j) /\ GuardRails(i) = GuardRails(j)
           /\ \A row : AsStated(i, row) <=> AsStated(j, row)
           /\ CheckRanges(j) => CheckRanges(i)
           /\ i.gearbox = j.gearbox /\ i.fuel = j.fuel /\ i.colors = j.colors
<1>1. /\ i.category = j.category /\ i.vehicles = j.vehicles /\ i.yearMin = j.yearMin
      /\ i.yearMax = j.yearMax /\ i.priceMin = j.priceMin /\ i.priceMax = j.priceMax
      /\ i.kmMin = j.kmMin /\ i.kmMax = j.kmMax /\ i.gearbox = j.gearbox /\ i.fuel = j.fuel
      /\ i.colors = j.colors /\ i.sources = j.sources /\ i.priceTypes = j.priceTypes
      /\ i.documents = j.documents /\ i.onlyBelow = j.onlyBelow /\ i.text = j.text
  BY DEF OneCity, NoIntent
<1>2. Targets(i) = Targets(j) /\ TextOf(i) = TextOf(j)
  BY <1>1 DEF Targets, TextOf
<1>3. GuardRails(i) = GuardRails(j)
  BY <1>1, <1>2 DEF GuardRails
<1>4. \A row : AsStated(i, row) <=> AsStated(j, row)
  BY <1>1 DEF AsStated
<1>5. CheckRanges(j) => CheckRanges(i)
  BY <1>1 DEF CheckRanges
<1> QED
  BY <1>1, <1>2, <1>3, <1>4, <1>5

\* What is as stated is within reach, so a candidate too.
LEMMA StatedIsFound ==
    ASSUME NEW i, BoundsOK(i), CheckRanges(i), NEW id \in DOMAIN Listings, AsStated(i, Listings[id])
    PROVE  InsideBounds(Listings[id], GuardRails(i))
<1> DEFINE price == TrustedPrice(Listings[id])
<1>1. /\ Within(price, i.priceMin, i.priceMax) /\ Within(Listings[id].km, i.kmMin, i.kmMax)
      /\ Within(Listings[id].year, i.yearMin, i.yearMax)
  BY DEF AsStated
<1> HIDE DEF price
<1>2. WithinReach(i.priceMin, i.priceMax, price, i.priceMin * 25, i.priceMax * 25, 100)
  BY <1>1 DEF Within, WithinReach
<1>3. WithinReach(i.kmMin, i.kmMax, Listings[id].km, i.kmMin * 50, i.kmMax * 50, 100)
  BY <1>1 DEF Within, WithinReach
<1>4. WithinReach(i.yearMin, i.yearMax, Listings[id].year, 5, 5, 1)
  BY <1>1 DEF Within, WithinReach
<1> QED
  BY <1>2, <1>3, <1>4, ReachIsInside DEF price

\* Of the listings of a model that is asked for, all are of its brand.
OneBrandPerModel(i) ==
    \A t \in Targets(i), id \in DOMAIN Listings :
        Listings[id].model = t.model => Listings[id].brand = t.brand

\* A search by whole models, of nothing a count ignores.
Countable(i) ==
    /\ OneBrandPerModel(i) /\ \A t \in Targets(i) : t.level = "model"
    /\ TextOf(i) = {} /\ i.fuel = NULL /\ i.colors = {}

\* The names of the models a search asks for.
ModelsOf(i) == {t.model : t \in Targets(i)} \ {NULL}

\* Of whole models, being of one that is asked for is being of its name.
LEMMA ModelsAsked ==
    ASSUME NEW i, FieldsOK(i), Countable(i), NEW id \in DOMAIN Listings
    PROVE  (ModelsOf(i) = {} \/ Listings[id].model \in ModelsOf(i)) <=>
             \/ Targets(i) = {}
             \/ \E t \in Targets(i) : Listings[id].brand = t.brand /\ Listings[id].model = t.model
<1>1. ASSUME NEW t \in Targets(i)
      PROVE  t.model # NULL /\ (Listings[id].model = t.model => Listings[id].brand = t.brand)
  <2>1. PICK e \in Catalog : t.model = e.model
    BY TargetIsOfCatalog DEF Countable
  <2>2. e.model # NULL
    BY SearchAssumption DEF InputsOK, CatalogOK
  <2> QED
    BY <2>1, <2>2 DEF Countable, OneBrandPerModel
<1> QED
  BY <1>1 DEF ModelsOf

\* What the ranker is asked for, and sees.
LEMMA CandidateColumns ==
    ASSUME NEW id \in DOMAIN Listings, NEW text
    PROVE  LET row == Candidate(id, text)
           IN /\ row.brand = Listings[id].brand /\ row.model = Listings[id].model
              /\ row.gearbox = Listings[id].gearbox /\ row.city = Listings[id].city
BY RowOf DEF Candidate, Over

\* What says that a listing fits: full in every criterion, or silent on a number.
Fits(i, id) ==
    \A c \in Stated(ScoresFor(i, id)) :
        \/ ScoresFor(i, id)[c].closeness = EXACT
        \/ c \in {"price", "km", "year"} /\ Seen(i, id)[c] = NULL

\* What says the same of its columns.
IsAskedFor(i, city, row) ==
    /\ AsStated(i, row) /\ row.city = city
    /\ ModelsOf(i) = {} \/ row.model \in ModelsOf(i)
    /\ i.gearbox \in {NULL, row.gearbox}

LEMMA FitsIs ==
    ASSUME NEW i, BoundsOK(i), FieldsOK(i), CheckRanges(i), Countable(i),
           NEW city \in {c.name : c \in Cities}, i.cities = {city}, NEW id \in DOMAIN Listings
    PROVE  /\ Fits(i, id) <=> IsAskedFor(i, city, Listings[id])
           /\ Fits(i, id) => PassesCutoff(RankedFor(i, id))
<1> DEFINE asked == RankingQuery(i)
           row == Listings[id]
           models == ModelsOf(i)
           seen == Seen(i, id)
           s == ScoresFor(i, id)
<1>1. /\ s.vehicle = VehicleScore(asked, seen) /\ s.price = PriceScore(asked, seen)
      /\ s.year = YearScore(asked, seen) /\ s.city = CityScore(asked, seen)
      /\ s.km = KmScore(asked, seen) /\ s.gearbox = ChoiceScore(asked.gearbox, seen.gearbox)
      /\ s.fuel = ChoiceScore(asked.fuel, seen.fuel) /\ s.text = TextScore(asked, seen)
      /\ s.color = ChoiceScore(asked.colors, seen.color)
      /\ DOMAIN s = {"vehicle", "price", "year", "city", "km", "gearbox", "fuel", "text", "color"}
  BY DEF ScoresFor, Scores
<1>2. /\ asked.targets = Targets(i) /\ asked.gearbox = {i.gearbox} \ {NULL}
      /\ asked.fuel = {i.fuel} \ {NULL} /\ asked.colors = i.colors /\ asked.text = TextOf(i)
      /\ asked.cities = {c \in Cities : c.name = city}
  BY DEF RankingQuery
<1>3. /\ seen.price = TrustedPrice(row) /\ seen.km = row.km /\ seen.year = row.year
      /\ seen.brand = row.brand /\ seen.model = row.model
      /\ seen.gearbox = row.gearbox /\ seen.city = row.city /\ seen.place \in Places \cup {NULL}
  BY CandidateOf, CandidateColumns, PlaceOf DEF Seen
<1>4. /\ asked.priceMin = i.priceMin /\ asked.priceMax = i.priceMax
      /\ asked.kmMin = i.kmMin /\ asked.kmMax = i.kmMax
      /\ asked.yearMin = i.yearMin /\ asked.yearMax = i.yearMax
  BY AskedOf
<1> HIDE DEF asked, seen, s
<1>5. /\ Criterion(i.priceMin, i.priceMax, TrustedPrice(row))
      /\ Criterion(i.kmMin, i.kmMax, row.km) /\ Criterion(i.yearMin, i.yearMax, row.year)
  BY CriteriaOf
<1>6. /\ Criterion(asked.priceMin, asked.priceMax, seen.price)
      /\ Criterion(asked.kmMin, asked.kmMax, seen.km)
      /\ Criterion(asked.yearMin, asked.yearMax, seen.year)
  BY <1>3, <1>4, <1>5
<1>7. Ranged(s.price, seen.price, asked.priceMin, asked.priceMax)
  BY <1>1, <1>6, PriceFull
<1>8. Ranged(s.km, seen.km, asked.kmMin, asked.kmMax)
  BY <1>1, <1>6, KmFull
<1>9. Ranged(s.year, seen.year, asked.yearMin, asked.yearMax)
  BY <1>1, <1>6, YearFull
<1>10. Full(s.vehicle) <=> (models = {} \/ row.model \in models)
  <2>1. \A t \in asked.targets : t.level = "model"
    BY <1>2 DEF Countable
  <2>2. Full(s.vehicle) <=>
          \/ asked.targets = {}
          \/ \E t \in asked.targets : seen.brand = t.brand /\ seen.model = t.model
    BY <1>1, <2>1, VehicleFull
  <2>3. (models = {} \/ Listings[id].model \in models) <=>
          \/ Targets(i) = {}
          \/ \E t \in Targets(i) : Listings[id].brand = t.brand /\ Listings[id].model = t.model
    BY ModelsAsked
  <2>4. /\ asked.targets = Targets(i) /\ seen.brand = Listings[id].brand
        /\ seen.model = Listings[id].model /\ row.model = Listings[id].model
    BY <1>2, <1>3
  <2> QED
    BY <2>2, <2>3, <2>4
<1>11. Full(s.city) <=> row.city = city
  <2>1. asked.cities \subseteq Cities /\ asked.cities # {}
    BY <1>2
  <2>2. Full(s.city) <=> \E c \in asked.cities : c.name = seen.city
    BY <1>1, <1>3, <2>1, CityFull
  <2> QED
    BY <1>2, <1>3, <2>2
<1>12. Full(s.gearbox) <=> i.gearbox \in {NULL, row.gearbox}
  <2>1. s.gearbox = ChoiceScore({i.gearbox} \ {NULL}, row.gearbox)
    BY <1>1, <1>2, <1>3
  <2> DEFINE wanted == i.gearbox
             value == row.gearbox
  <2> HIDE DEF wanted, value
  <2>2. Full(ChoiceScore({wanted} \ {NULL}, value)) <=> wanted \in {NULL, value}
    BY ChoiceFull
  <2> QED
    BY <2>1, <2>2 DEF wanted, value
<1>13. s.fuel = NULL /\ s.text = NULL /\ s.color = NULL
  <2>1. asked.fuel = {} /\ asked.text = {} /\ asked.colors = {}
    BY <1>2 DEF Countable
  <2> QED
    BY <1>1, <2>1 DEF ChoiceScore, TextScore
<1>14. Fits(i, id) <=>
         \A c \in DOMAIN s : Full(s[c]) \/ (c \in {"price", "km", "year"} /\ seen[c] = NULL)
  BY DEF Fits, Stated, Full, s, seen
<1>15. Fits(i, id) <=>
         /\ Full(s.price) \/ seen.price = NULL
         /\ Full(s.km) \/ seen.km = NULL
         /\ Full(s.year) \/ seen.year = NULL
         /\ Full(s.vehicle) /\ Full(s.city) /\ Full(s.gearbox)
  <2>1. Full(s.fuel) /\ Full(s.text) /\ Full(s.color)
    BY <1>13 DEF Full
  <2> QED
    BY <1>1, <1>14, <2>1
<1>16. /\ Full(s.price) \/ seen.price = NULL <=> Within(TrustedPrice(row), i.priceMin, i.priceMax)
       /\ Full(s.km) \/ seen.km = NULL <=> Within(row.km, i.kmMin, i.kmMax)
       /\ Full(s.year) \/ seen.year = NULL <=> Within(row.year, i.yearMin, i.yearMax)
  BY <1>3, <1>4, <1>7, <1>8, <1>9 DEF Ranged
<1>17. Fits(i, id) <=> IsAskedFor(i, city, row)
  BY <1>10, <1>11, <1>12, <1>15, <1>16 DEF AsStated, IsAskedFor
<1>18. ASSUME Fits(i, id) PROVE PassesCutoff(RankedFor(i, id))
  <2>1. /\ s.price = NULL \/ s.price.closeness \in {UNKNOWN_CLOSENESS, EXACT}
        /\ s.km = NULL \/ s.km.closeness \in {UNKNOWN_CLOSENESS, EXACT}
        /\ s.year = NULL \/ s.year.closeness \in {UNKNOWN_CLOSENESS, EXACT}
    BY <1>3, <1>4, <1>7, <1>8, <1>9, <1>15, <1>16, <1>18 DEF Ranged
  <2>2. Full(s.vehicle) /\ Full(s.city) /\ Full(s.gearbox)
    BY <1>15, <1>18
  <2>3. \A c \in DOMAIN s : s[c] = NULL \/ s[c].closeness \in {UNKNOWN_CLOSENESS, EXACT}
    BY <1>1, <1>13, <2>1, <2>2 DEF Full
  <2>4. \A c \in Stated(ScoresFor(i, id)) : ScoresFor(i, id)[c].closeness \in {UNKNOWN_CLOSENESS, EXACT}
    BY <2>3 DEF Stated, s
  <2> QED
    BY <2>4, NearPasses
<1> QED
  BY <1>17, <1>18

\* What is counted for a city.
CountedIn(scope, city) == {id \in InScope(scope, "city") : Listings[id]["city"] = city}

\* It is what the search for that city finds, passes, and shows without a miss.
LEMMA CountedIsFound ==
    ASSUME NEW j, BoundsOK(j), FieldsOK(j), CheckRanges(j), Countable(j),
           NEW city \in {c.name : c \in Cities},
           NEW i, i = InCity(j, city), NEW id \in DOMAIN Listings
    PROVE  id \in CountedIn(Scope(j), city) <=>
             id \in FoundBy(i) /\ PassesCutoff(RankedFor(i, id)) /\ Fits(i, id)
<1> DEFINE row == Listings[id]
           scope == Scope(j)
           models == ModelsOf(i)
<1>1. OneCity(i, j, city) /\ BoundsOK(i) /\ FieldsOK(i)
  BY InOneCity
<1>2. /\ Targets(i) = Targets(j) /\ TextOf(i) = TextOf(j) /\ GuardRails(i) = GuardRails(j)
      /\ AsStated(i, row) <=> AsStated(j, row)
      /\ CheckRanges(i) /\ i.gearbox = j.gearbox /\ i.fuel = j.fuel /\ i.colors = j.colors
  BY <1>1, OneCityAsks
<1>3. Countable(i)
  BY <1>2 DEF Countable, OneBrandPerModel
<1>4. i.cities = {city}
  BY <1>1 DEF OneCity
<1>5. scope.models = models /\ scope.gearbox = i.gearbox
  BY <1>2 DEF Scope, ModelsOf
<1> HIDE DEF row, scope
<1>6. id \in InScope(scope, "city") <=>
        AsStated(i, row) /\ Unranged(row, GuardRails(i)) /\ Counted(scope, row)
  BY <1>2, CityScopeIs DEF row, scope
<1>7. Counted(scope, row) <=> /\ models = {} \/ row.model \in models
                              /\ i.gearbox \in {NULL, row.gearbox}
  BY <1>5 DEF Counted
<1>8. /\ Fits(i, id) <=> IsAskedFor(i, city, row)
      /\ Fits(i, id) => PassesCutoff(RankedFor(i, id))
  BY <1>1, <1>2, <1>3, <1>4, FitsIs DEF row
<1>9. id \in CountedIn(scope, city) <=> Fits(i, id) /\ Unranged(row, GuardRails(i))
  BY <1>6, <1>7, <1>8 DEF CountedIn, IsAskedFor, row
<1>10. id \in FoundBy(i) <=> InsideBounds(row, GuardRails(i)) /\ Unranged(row, GuardRails(i))
  BY ConditionsAre DEF FoundBy, row
<1>11. AsStated(i, row) => InsideBounds(row, GuardRails(i))
  BY <1>1, <1>2, StatedIsFound DEF row
<1> QED
  BY <1>8, <1>9, <1>10, <1>11 DEF IsAskedFor, scope

\* What a search shows, and of it what is full in every criterion, or silent on a number.
ShownFitting(i) ==
    {row \in {Candidate(r.id, {}) : r \in ToSet(Results(i, {}))} :
       \A c \in Stated(Scores(RankingQuery(i), row)) :
          \/ Scores(RankingQuery(i), row)[c].closeness = EXACT
          \/ c \in {"price", "km", "year"} /\ row[c] = NULL}

\* When all fit, the search shows them, and they are as many as the count says.
LEMMA CountIsOfFound ==
    ASSUME NEW j, BoundsOK(j), FieldsOK(j), CheckRanges(j), Countable(j), Fitting(j),
           NEW city \in {c.name : c \in Cities},
           NEW i, i = InCity(j, city)
    PROVE  /\ ShownFitting(i) = {Candidate(id, {}) : id \in CountedIn(Scope(j), city)}
           /\ Cardinality(ShownFitting(i)) = CountFacet(Scope(j), "city", city)
<1> DEFINE ids == CountedIn(Scope(j), city)
           shown == {Candidate(r.id, {}) : r \in ToSet(Results(i, {}))}
           fits(row) == \A c \in Stated(Scores(RankingQuery(i), row)) :
                           \/ Scores(RankingQuery(i), row)[c].closeness = EXACT
                           \/ c \in {"price", "km", "year"} /\ row[c] = NULL
<1>1. OneCity(i, j, city) /\ BoundsOK(i) /\ FieldsOK(i)
  BY InOneCity
<1>2. TextOf(i) = TextOf(j) /\ GuardRails(i) = GuardRails(j)
  BY <1>1, OneCityAsks
<1>3. TextOf(i) = {} /\ Fitting(i)
  BY <1>2 DEF Countable, Fitting, FoundBy
<1>4. \A id \in DOMAIN Listings : Seen(i, id) = Candidate(id, {})
  BY <1>3 DEF Seen
<1>5. \A id \in DOMAIN Listings : fits(Candidate(id, {})) <=> Fits(i, id)
  BY <1>4 DEF Fits, ScoresFor
<1>6. ids \subseteq DOMAIN Listings
  BY DEF CountedIn, InScope
<1>7. \A id \in DOMAIN Listings :
        id \in ids <=> id \in FoundBy(i) /\ PassesCutoff(RankedFor(i, id)) /\ Fits(i, id)
  BY CountedIsFound
<1>8. /\ \A r \in ToSet(Results(i, {})) : r.id \in DOMAIN Listings
      /\ \A id \in DOMAIN Listings :
           (\E r \in ToSet(Results(i, {})) : r.id = id) <=>
             id \in FoundBy(i) /\ PassesCutoff(RankedFor(i, id))
  BY <1>1, <1>3, AllAreShown
<1>9. ShownFitting(i) = {row \in shown : fits(row)}
  BY DEF ShownFitting
<1> HIDE DEF fits, ids
<1>10. \A row \in shown : \E id \in DOMAIN Listings :
         row = Candidate(id, {}) /\ id \in FoundBy(i) /\ PassesCutoff(RankedFor(i, id))
  BY <1>8
<1>11. \A id \in ids : Candidate(id, {}) \in shown /\ fits(Candidate(id, {}))
  BY <1>5, <1>6, <1>7, <1>8
<1> HIDE DEF shown
<1>12. ShownFitting(i) \subseteq {Candidate(id, {}) : id \in ids}
  BY <1>5, <1>7, <1>9, <1>10
<1>13. {Candidate(id, {}) : id \in ids} \subseteq ShownFitting(i)
  BY <1>9, <1>11
<1>14. ShownFitting(i) = {Candidate(id, {}) : id \in ids}
  BY <1>12, <1>13
<1>15. Cardinality(ShownFitting(i)) = Cardinality(ids)
  <2> DEFINE f == [id \in ids |-> Candidate(id, {})]
  <2>1. f \in Surjection(ids, ShownFitting(i))
    BY <1>14 DEF Surjection
  <2>2. IsFiniteSet(ids)
    BY <1>6, FS_Subset, SearchAssumption DEF InputsOK, TableOK
  <2>3. \A a \in DOMAIN Listings : Candidate(a, {}).id = a
    BY SeenAs
  <2>4. \A a, b \in ids : f[a] = f[b] => a = b
    BY <1>6, <2>3
  <2>5. f \in Injection(ids, ShownFitting(i))
    BY <2>1, <2>4 DEF Surjection, Injection, IsInjective
  <2> HIDE DEF f
  <2> QED
    BY <2>1, <2>2, <2>5, FS_Surjection
<1>16. CountFacet(Scope(j), "city", city) = Cardinality(ids)
  BY DEF CountFacet, CountedIn, ids
<1> QED
  BY <1>14, <1>15, <1>16 DEF ids

\* The price of what is counted lies in the range of the panel.
LEMMA PriceIsInRange ==
    ASSUME NEW j, NEW city, Scope(j).cities \in {{}, {city}}, NEW id \in CountedIn(Scope(j), city),
           NEW price, price = Candidate(id, {}).price, price # NULL,
           NEW prices, prices = FacetRange(Scope(j), "price")
    PROVE  price \in prices[1]..prices[2]
<1> DEFINE scope == Scope(j)
           ids == InScope([scope EXCEPT !.filter = Unbounded(@)], NULL)
           all == {Candidate(x, {})["price"] : x \in ids}
           values == all \ {NULL}
<1>1. ids \subseteq DOMAIN Listings
  BY DEF InScope
<1>2. id \in DOMAIN Listings /\ id \in InScope(scope, "city") /\ Listings[id].city = city
  BY DEF CountedIn, InScope
<1>3. Unranged(Listings[id], GuardRails(j)) /\ Counted(scope, Listings[id])
  BY <1>2, CityScopeIs
<1>4. id \in ids
  BY <1>2, <1>3, RangeScopeHolds
<1>5. price \in values
  BY <1>4
<1>6. prices = IF values = {} THEN NULL ELSE <<Smallest(values), Largest(values)>>
  BY DEF FacetRange
<1>7. IsFiniteSet(values) /\ values \subseteq Int
  <2> DEFINE f == [x \in ids |-> Candidate(x, {})["price"]]
  <2>1. DOMAIN f = ids /\ all = {f[x] : x \in ids}
    OBVIOUS
  <2>2. IsFiniteSet(ids)
    BY <1>1, FS_Subset, SearchAssumption DEF InputsOK, TableOK
  <2>3. all \subseteq Number
    BY <1>1, CandidateOf, RowOf
  <2> HIDE DEF f, ids, all
  <2>4. IsFiniteSet(all)
    BY <2>1, <2>2, ImageFinite
  <2> QED
    BY <2>3, <2>4, FS_Subset DEF Number
<1> HIDE DEF values
<1>8. /\ Smallest(values) \in values /\ Smallest(values) <= price
      /\ Largest(values) \in values /\ price <= Largest(values)
  <2>1. \E m \in values : \A n \in values : n <= m
    BY <1>5, <1>7, EndsIn
  <2>2. \E m \in values : \A n \in values : m <= n
    BY <1>5, <1>7, EndsIn
  <2> QED
    BY <1>5, <2>1, <2>2 DEF Smallest, Largest
<1>9. prices[1] = Smallest(values) /\ prices[2] = Largest(values)
  BY <1>5, <1>6
<1>10. {price, Smallest(values), Largest(values)} \subseteq Int
  BY <1>5, <1>7, <1>8
<1> QED
  BY <1>8, <1>9, <1>10

\* What the bounds find fits in a list of candidates, and of results.
NothingCut ==
    LET found == {id \in DOMAIN Listings : Conditions(Listings[id], GuardRails(intent))}
    IN Cardinality(found) <= MAX_CANDIDATES /\ Cardinality(found) <= MAX_RESULTS

LEMMA QueryKeepsCounts ==
    ASSUME QueryIInv, NothingCut, OneBrandPerModel(intent)
    PROVE  FacetsAgreeWithSearch
<1> DEFINE scope == Scope(intent)
           prices == FacetRange(scope, "price")
<1> SUFFICES ASSUME stage = "done", \A t \in Targets(intent) : t.level = "model",
                    scope.filter.text = {}, intent.fuel = NULL, intent.colors = {},
                    NEW city \in {c.name : c \in Cities},
                    NEW found, found = ShownFitting(InCity(intent, city))
             PROVE  /\ Cardinality(found) = CountFacet(scope, "city", city)
                    /\ scope.cities \in {{}, {city}} =>
                         \A row \in found : row.price = NULL \/ row.price \in prices[1]..prices[2]
  BY DEF FacetsAgreeWithSearch, ShownFitting, InCity
<1>1. BoundsOK(intent) /\ FieldsOK(intent) /\ CheckRanges(intent)
  BY DEF QueryIInv
<1>2. Fitting(intent)
  BY DEF NothingCut, Fitting, FoundBy
<1>3. Countable(intent)
  <2>1. scope.filter.text = TextOf(intent)
    BY DEF Scope, ExactFilter, GuardRails
  <2> QED
    BY <2>1 DEF Countable
<1>4. /\ found = {Candidate(id, {}) : id \in CountedIn(scope, city)}
      /\ Cardinality(found) = CountFacet(scope, "city", city)
  BY <1>1, <1>2, <1>3, CountIsOfFound
<1>5. ASSUME scope.cities \in {{}, {city}}, NEW id \in CountedIn(scope, city),
             Candidate(id, {}).price # NULL
      PROVE  Candidate(id, {}).price \in prices[1]..prices[2]
  BY <1>5, PriceIsInRange
<1>6. ASSUME scope.cities \in {{}, {city}}, NEW row \in found, row.price # NULL
      PROVE  row.price \in prices[1]..prices[2]
  <2>1. PICK id \in CountedIn(scope, city) : row = Candidate(id, {})
    BY <1>4
  <2> HIDE DEF scope, prices
  <2> QED
    BY <1>5, <1>6, <2>1
<1> HIDE DEF scope, prices
<1> QED
  BY <1>4, <1>6

\* Any table, any catalog, any searches, filters and answers of the model: when no limit
\* cuts what is found, and the models asked for have a brand each, the panel counts for a
\* city what a search for that city finds without a miss, and the prices found lie in its
\* range (count_facet, facet_ranges, rank).
THEOREM FacetsCountTheSearch ==
    Spec => [](NothingCut /\ OneBrandPerModel(intent) => FacetsAgreeWithSearch)
<1>1. Init => QueryIInv
  BY QueryInit
<1>2. QueryIInv /\ [Next]_vars => QueryIInv'
  BY QueryStep
<1>3. QueryIInv => (NothingCut /\ OneBrandPerModel(intent) => FacetsAgreeWithSearch)
  BY QueryKeepsCounts
<1> QED
  BY <1>1, <1>2, <1>3, PTL DEF Spec
===============================================================================
