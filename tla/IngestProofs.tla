---------------------------- MODULE IngestProofs ----------------------------
(***************************************************************************)
(* What an ingest leaves behind.  Each of its stages changes nothing that   *)
(* it has done already, and the later ones leave alone what the earlier ones *)
(* looked at; so the tables hold what counting and estimating them again    *)
(* would give, and ingesting the same file again gives them once more.      *)
(* Of the estimates themselves: the bulk pass agrees with a single query, a  *)
(* lower price never scores worse, a band holds its estimate, and the counts *)
(* beside it add up.                                                         *)
(***************************************************************************)
EXTENDS Ingest, FiniteSetTheorems, WellFoundedInduction, TLAPS

IsTable(f) == f = [x \in DOMAIN f |-> f[x]]

\* Listings have their city and their catalog entry, if they name one, and an estimate.
TablesOK(d) ==
  /\ d = Tables(d.listings, d.estimates, d.cities, d.catalog)
  /\ IsTable(d.listings) /\ IsTable(d.estimates) /\ IsTable(d.cities) /\ IsTable(d.catalog)
  /\ DOMAIN d.estimates = DOMAIN d.listings
  /\ \A t \in DOMAIN d.listings :
        /\ d.listings[t].city \in DOMAIN d.cities
        /\ d.listings[t].catalog \in DOMAIN d.catalog \cup {NULL}
  /\ \A key \in DOMAIN d.catalog :
        d.catalog[key] = [brand |-> d.catalog[key].brand, model |-> d.catalog[key].model,
                          count |-> d.catalog[key].count]

\* The rows of a file are stored, each token's last one.
Stored(d, f) ==
  /\ \A k \in DOMAIN f :
        /\ MapRow(f[k]).city \in DOMAIN d.cities
        /\ MapRow(f[k]).catalog \in DOMAIN d.catalog \cup {NULL}
  /\ UpsertMany(d.listings, [k \in DOMAIN f |-> MapRow(f[k])], [k \in DOMAIN f |-> f[k].token])
       = d.listings

Counted(d) ==
  RefreshStatistics(d.cities, d.listings) = d.cities /\ RefreshCounts(d.catalog, d.listings) = d.catalog

Estimated(d) == d.estimates = EstimateAll(EstimatorInputs(d.listings, d.catalog))

\* What is committed was left by the file ingested last, and what is under way is, if it is
\* that file, what is there already.
IngestInv ==
  /\ TablesOK(db) /\ Stored(db, lastFile) /\ Counted(db) /\ Estimated(db)
  /\ stage \in {"idle", "upsert", "refresh", "estimate", "bump", "commit"}
  /\ \E n \in Nat : DOMAIN file = 1..n
  /\ stage = "upsert" => tx = db
  /\ stage \in {"refresh", "estimate", "bump", "commit"} =>
       TablesOK(tx) /\ Stored(tx, file) /\ (file = lastFile => tx = db)
  /\ stage \in {"estimate", "bump", "commit"} => Counted(tx)
  /\ stage \in {"bump", "commit"} => Estimated(tx)

-----------------------------------------------------------------------------
\* Tables are functions: the same keys with the same values are the same table.
LEMMA SameTable ==
    ASSUME NEW f, NEW g, IsTable(f), IsTable(g), DOMAIN f = DOMAIN g,
           \A x \in DOMAIN f : f[x] = g[x]
    PROVE  f = g
BY DEF IsTable

LEMMA EmptyTable == IsTable(<<>>) /\ DOMAIN <<>> = {} /\ DOMAIN <<>> = 1..0
<1>1. <<>> \in Seq({})
  OBVIOUS
<1>2. PICK n \in Nat : <<>> \in [1..n -> {}]
  BY <1>1 DEF Seq
<1> QED
  BY <1>2 DEF IsTable

\* A token that is in the file has a last row there.
LEMMA LastRow ==
    ASSUME NEW n \in Nat, NEW tokens, DOMAIN tokens = 1..n, NEW t \in ToSet(tokens)
    PROVE  LastWith(tokens, t) \in DOMAIN tokens
<1> DEFINE S == {k \in DOMAIN tokens : tokens[k] = t}
           N == {n - k : k \in S}
           R == OpToRel(<, Nat)
<1>1. S # {} /\ S \subseteq 1..n
  BY DEF ToSet
<1>2. N # {} /\ N \subseteq Nat
  BY <1>1
<1>3. PICK m \in N : \A x \in N : <<x, m>> \notin R
  <2>1. IsWellFoundedOn(R, Nat)
    BY NatLessThanWellFounded
  <2> HIDE DEF R, N
  <2> QED
    BY <1>2, <2>1, WFMin
<1>4. \A x \in N : ~(x < m)
  BY <1>2, <1>3 DEF OpToRel
<1>5. PICK k \in S : m = n - k
  OBVIOUS
<1>6. ASSUME NEW j \in S PROVE k >= j
  <2>1. j \in Nat /\ k \in Nat /\ n - j \in N
    BY <1>1, <1>5
  <2>2. ~(n - j < n - k)
    BY <1>4, <1>5, <2>1
  <2> QED
    BY <2>1, <2>2
<1>7. \E l \in S : \A j \in S : l >= j
  BY <1>5, <1>6
<1>8. Max(S) \in S
  <2> HIDE DEF S
  <2> QED
    BY <1>7 DEF Max
<1> QED
  BY <1>8 DEF LastWith

-----------------------------------------------------------------------------
\* The stages on the tables they are given.

Upserted(d, f) ==
  LET mapped == [k \in DOMAIN f |-> MapRow(f[k])]
      listings == UpsertMany(d.listings, mapped, [k \in DOMAIN f |-> f[k].token])
  IN Tables(listings, Over(d.estimates, [t \in DOMAIN listings |-> NoEstimate]),
            UpsertNames(d.cities, mapped), UpsertEntries(d.catalog, mapped))

Refreshed(d) ==
  Tables(d.listings, d.estimates, RefreshStatistics(d.cities, d.listings),
         RefreshCounts(d.catalog, d.listings))

Reestimated(d) ==
  Tables(d.listings, EstimateAll(EstimatorInputs(d.listings, d.catalog)), d.cities, d.catalog)

\* The file's rows are the listings of its tokens, and no other listing is lost.
HoldsFile(after, listings, mapped, tokens) ==
  /\ IsTable(after)
  /\ DOMAIN after = ToSet(tokens) \cup DOMAIN listings
  /\ \A t \in DOMAIN after :
        \/ \E k \in DOMAIN mapped : after[t] = mapped[k]
        \/ t \in DOMAIN listings /\ after[t] = listings[t]
  /\ UpsertMany(after, mapped, tokens) = after

LEMMA UpsertedListings ==
    ASSUME NEW n \in Nat, NEW mapped, NEW tokens, NEW listings, NEW after,
           DOMAIN mapped = 1..n, DOMAIN tokens = 1..n, IsTable(listings),
           after = UpsertMany(listings, mapped, tokens)
    PROVE  HoldsFile(after, listings, mapped, tokens)
<1> DEFINE rows == [t \in ToSet(tokens) |-> mapped[LastWith(tokens, t)]]
           again == UpsertMany(after, mapped, tokens)
<1>1. IsTable(rows) /\ DOMAIN rows = ToSet(tokens)
  BY DEF IsTable
<1>2. /\ IsTable(after) /\ DOMAIN after = ToSet(tokens) \cup DOMAIN listings
      /\ \A t \in ToSet(tokens) : after[t] = rows[t]
      /\ \A t \in DOMAIN listings \ ToSet(tokens) : after[t] = listings[t]
  <2> HIDE DEF rows
  <2>1. after = Over(rows, listings)
    BY DEF UpsertMany, rows
  <2> QED
    BY <1>1, <2>1 DEF Over, IsTable
<1>3. \A t \in ToSet(tokens) : \E k \in DOMAIN mapped : after[t] = mapped[k]
  BY <1>2, LastRow
<1>4. /\ IsTable(again) /\ DOMAIN again = ToSet(tokens) \cup DOMAIN after
      /\ \A t \in ToSet(tokens) : again[t] = rows[t]
      /\ \A t \in DOMAIN after \ ToSet(tokens) : again[t] = after[t]
  <2> HIDE DEF rows
  <2>1. again = Over(rows, after)
    BY DEF UpsertMany, rows
  <2> HIDE DEF again
  <2> QED
    BY <1>1, <2>1 DEF Over, IsTable
<1> HIDE DEF again, rows
<1>5. again = after
  BY <1>2, <1>4, SameTable
<1> QED
  BY <1>2, <1>3, <1>5 DEF again, HoldsFile

\* Storing a file keeps the tables in order, and storing it twice is storing it once.
LEMMA UpsertStores ==
    ASSUME NEW n \in Nat, NEW d, NEW f, DOMAIN f = 1..n, TablesOK(d)
    PROVE  /\ TablesOK(Upserted(d, f)) /\ Stored(Upserted(d, f), f)
           /\ Stored(d, f) => Upserted(d, f) = d
<1> DEFINE mapped == [k \in DOMAIN f |-> MapRow(f[k])]
           tokens == [k \in DOMAIN f |-> f[k].token]
           e == Upserted(d, f)
           named == {mapped[k].city : k \in DOMAIN mapped}
           entered == {mapped[k].catalog : k \in DOMAIN mapped} \ {NULL}
           blank == [t \in DOMAIN e.listings |-> NoEstimate]
           zero == [c \in named |-> 0]
           entry == [key \in entered |-> [brand |-> BrandOf(key[2]), model |-> ModelOf(key[2]), count |-> 0]]
<1>1. e = Tables(e.listings, e.estimates, e.cities, e.catalog)
  BY DEF Upserted, Tables
<1>2. e.listings = UpsertMany(d.listings, mapped, tokens)
  BY DEF Upserted, Tables
<1>3. e.estimates = Over(d.estimates, blank)
  BY DEF Upserted, Tables
<1>4. e.cities = Over(d.cities, zero)
  BY DEF Upserted, Tables, UpsertNames, InsertNew
<1>5. e.catalog = Over(d.catalog, entry)
  BY DEF Upserted, Tables, UpsertEntries, InsertNew
<1>6. /\ IsTable(d.listings) /\ IsTable(d.estimates) /\ IsTable(d.cities) /\ IsTable(d.catalog)
      /\ DOMAIN d.estimates = DOMAIN d.listings
      /\ d = Tables(d.listings, d.estimates, d.cities, d.catalog)
  BY DEF TablesOK
<1>7. /\ IsTable(e.listings) /\ DOMAIN e.listings = ToSet(tokens) \cup DOMAIN d.listings
      /\ \A t \in DOMAIN e.listings :
            \/ \E k \in DOMAIN mapped : e.listings[t] = mapped[k]
            \/ t \in DOMAIN d.listings /\ e.listings[t] = d.listings[t]
      /\ UpsertMany(e.listings, mapped, tokens) = e.listings
  <2>1. DOMAIN mapped = 1..n /\ DOMAIN tokens = 1..n /\ IsTable(d.listings)
    BY <1>6
  <2> HIDE DEF mapped, tokens, e
  <2>2. HoldsFile(e.listings, d.listings, mapped, tokens)
    BY <1>2, <2>1, UpsertedListings
  <2> QED
    BY <2>2 DEF HoldsFile
<1>8. /\ IsTable(e.estimates) /\ DOMAIN e.estimates = DOMAIN e.listings
      /\ DOMAIN e.listings = DOMAIN d.listings => e.estimates = d.estimates
  <2>1. DOMAIN blank = DOMAIN e.listings
    OBVIOUS
  <2> HIDE DEF blank, e
  <2>2. DOMAIN e.listings = DOMAIN d.estimates \cup DOMAIN e.listings
    BY <1>6, <1>7
  <2>3. IsTable(e.estimates) /\ DOMAIN e.estimates = DOMAIN e.listings
    BY <1>3, <2>1, <2>2 DEF Over, IsTable
  <2>4. ASSUME DOMAIN e.listings = DOMAIN d.listings
        PROVE  e.estimates = d.estimates
    <3>1. DOMAIN blank = DOMAIN d.estimates /\ IsTable(d.estimates)
      BY <1>6, <2>1, <2>4
    <3> QED
      BY <1>3, <3>1 DEF Over, IsTable
  <2> QED
    BY <2>3, <2>4
<1>9. /\ IsTable(e.cities) /\ DOMAIN e.cities = DOMAIN d.cities \cup named
      /\ named \subseteq DOMAIN d.cities => e.cities = d.cities
  <2>1. DOMAIN zero = named
    OBVIOUS
  <2> HIDE DEF zero, e, named
  <2> QED
    BY <1>4, <1>6, <2>1 DEF Over, IsTable
<1>10. /\ IsTable(e.catalog) /\ DOMAIN e.catalog = DOMAIN d.catalog \cup entered
       /\ entered \subseteq DOMAIN d.catalog => e.catalog = d.catalog
  <2>1. DOMAIN entry = entered
    OBVIOUS
  <2> HIDE DEF entry, e, entered
  <2> QED
    BY <1>5, <1>6, <2>1 DEF Over, IsTable
<1>17. ASSUME NEW key \in DOMAIN e.catalog
        PROVE  e.catalog[key] = IF key \in DOMAIN d.catalog THEN d.catalog[key] ELSE entry[key]
  <2> HIDE DEF entry, e, entered
  <2> QED
    BY <1>5 DEF Over
<1>11. \A k \in DOMAIN f : MapRow(f[k]).city \in DOMAIN e.cities
                          /\ MapRow(f[k]).catalog \in DOMAIN e.catalog \cup {NULL}
  <2> HIDE DEF e
  <2> QED
    BY <1>9, <1>10
<1>12. Stored(e, f)
  <2> HIDE DEF e
  <2> QED
    BY <1>7, <1>11 DEF Stored
<1>13. ASSUME NEW t \in DOMAIN e.listings
      PROVE  e.listings[t].city \in DOMAIN e.cities /\ e.listings[t].catalog \in DOMAIN e.catalog \cup {NULL}
  <2> HIDE DEF e
  <2>1. CASE \E k \in DOMAIN mapped : e.listings[t] = mapped[k]
    BY <1>11, <2>1
  <2>2. CASE t \in DOMAIN d.listings /\ e.listings[t] = d.listings[t]
    BY <1>9, <1>10, <2>2 DEF TablesOK
  <2> QED
    BY <1>7, <2>1, <2>2
<1>14. ASSUME NEW key \in DOMAIN e.catalog
       PROVE  e.catalog[key] = [brand |-> e.catalog[key].brand, model |-> e.catalog[key].model,
                                count |-> e.catalog[key].count]
  <2> HIDE DEF e
  <2>1. CASE key \in DOMAIN d.catalog
    BY <1>17, <2>1 DEF TablesOK
  <2>2. CASE key \notin DOMAIN d.catalog
    <3>1. key \in entered /\ e.catalog[key] = entry[key]
      <4> HIDE DEF entry, entered, e
      <4> QED
        BY <1>10, <1>17, <2>2
    <3> QED
      BY <3>1
  <2> QED
    BY <2>1, <2>2
<1>15. TablesOK(e)
  <2> HIDE DEF e
  <2> QED
    BY <1>1, <1>7, <1>8, <1>9, <1>10, <1>13, <1>14 DEF TablesOK
<1>16. ASSUME Stored(d, f) PROVE e = d
  <2>1. e.listings = d.listings
    BY <1>2, <1>16 DEF Stored
  <2>2. named \subseteq DOMAIN d.cities /\ entered \subseteq DOMAIN d.catalog
    BY <1>16 DEF Stored
  <2> HIDE DEF e, named, entered, entry
  <2>3. e.estimates = d.estimates
    BY <1>8, <2>1
  <2>4. e.cities = d.cities
    BY <1>9, <2>2
  <2>5. e.catalog = d.catalog
    BY <1>10, <2>2
  <2> QED
    BY <1>1, <1>6, <2>1, <2>3, <2>4, <2>5
<1> QED
  BY <1>12, <1>15, <1>16

\* Counting keeps the tables in order, and counting twice is counting once.
LEMMA RefreshCounted ==
    ASSUME NEW d, TablesOK(d)
    PROVE  /\ TablesOK(Refreshed(d)) /\ Counted(Refreshed(d))
           /\ \A f : Stored(d, f) => Stored(Refreshed(d), f)
           /\ Counted(d) => Refreshed(d) = d
<1> DEFINE e == Refreshed(d)
           living(c) == {t \in DOMAIN d.listings : d.listings[t].city = c}
           used(key) == {t \in DOMAIN d.listings : d.listings[t].catalog = key}
<1>1. /\ e = Tables(e.listings, e.estimates, e.cities, e.catalog)
      /\ e.listings = d.listings /\ e.estimates = d.estimates
      /\ e.cities = RefreshStatistics(d.cities, d.listings)
      /\ e.catalog = RefreshCounts(d.catalog, d.listings)
  BY DEF Refreshed, Tables
<1>2. /\ IsTable(e.cities) /\ DOMAIN e.cities = DOMAIN d.cities
      /\ \A c \in DOMAIN d.cities :
            e.cities[c] = IF living(c) = {} THEN d.cities[c] ELSE Cardinality(living(c))
  <2>1. e.cities = RefreshStatistics(d.cities, d.listings)
    BY <1>1
  <2> HIDE DEF e
  <2> QED
    BY <2>1 DEF RefreshStatistics, IsTable
<1>3. IsTable(e.catalog) /\ DOMAIN e.catalog = DOMAIN d.catalog
  <2>1. e.catalog = RefreshCounts(d.catalog, d.listings)
    BY <1>1
  <2> HIDE DEF e
  <2> QED
    BY <2>1 DEF RefreshCounts, IsTable
<1>4. ASSUME NEW key \in DOMAIN d.catalog
      PROVE  e.catalog[key] = IF used(key) = {} THEN d.catalog[key]
                              ELSE [brand |-> d.catalog[key].brand, model |-> d.catalog[key].model,
                                    count |-> Cardinality(used(key))]
  <2>1. e.catalog[key] = IF used(key) = {} THEN d.catalog[key]
                         ELSE [d.catalog[key] EXCEPT !.count = Cardinality(used(key))]
    <3>1. e.catalog = RefreshCounts(d.catalog, d.listings)
      BY <1>1
    <3> HIDE DEF e
    <3> QED
      BY <3>1 DEF RefreshCounts
  <2>2. d.catalog[key] = [brand |-> d.catalog[key].brand, model |-> d.catalog[key].model,
                          count |-> d.catalog[key].count]
    BY DEF TablesOK
  <2> HIDE DEF e
  <2> QED
    BY <2>1, <2>2
<1>5. TablesOK(e)
  <2>1. ASSUME NEW key \in DOMAIN e.catalog
        PROVE  e.catalog[key] = [brand |-> e.catalog[key].brand, model |-> e.catalog[key].model,
                                 count |-> e.catalog[key].count]
    <3>1. key \in DOMAIN d.catalog
      BY <1>3
    <3>2. CASE used(key) = {}
      <4>1. e.catalog[key] = d.catalog[key]
        BY <1>4, <3>1, <3>2
      <4> HIDE DEF e
      <4> QED
        BY <3>1, <4>1 DEF TablesOK
    <3>3. CASE used(key) # {}
      <4>1. e.catalog[key] = [brand |-> d.catalog[key].brand, model |-> d.catalog[key].model,
                              count |-> Cardinality(used(key))]
        BY <1>4, <3>1, <3>3
      <4> HIDE DEF e
      <4> QED
        BY <4>1
    <3> QED
      BY <3>2, <3>3
  <2> HIDE DEF e
  <2> QED
    BY <1>1, <1>2, <1>3, <2>1 DEF TablesOK
<1>6. Counted(e)
  <2>1. RefreshStatistics(e.cities, e.listings) = e.cities
    <3> HIDE DEF e
    <3> QED
      BY <1>1, <1>2 DEF RefreshStatistics, IsTable
  <2>2. RefreshCounts(e.catalog, e.listings) = e.catalog
    <3> DEFINE again == RefreshCounts(e.catalog, e.listings)
    <3>1. IsTable(again) /\ DOMAIN again = DOMAIN e.catalog
      BY DEF RefreshCounts, IsTable
    <3>2. ASSUME NEW key \in DOMAIN e.catalog PROVE again[key] = e.catalog[key]
      <4>1. again[key] = IF used(key) = {} THEN e.catalog[key]
                         ELSE [e.catalog[key] EXCEPT !.count = Cardinality(used(key))]
        <5>1. e.listings = d.listings
          BY <1>1
        <5> HIDE DEF e
        <5> QED
          BY <5>1 DEF RefreshCounts
      <4>2. used(key) # {} =>
              e.catalog[key] = [brand |-> d.catalog[key].brand, model |-> d.catalog[key].model,
                                count |-> Cardinality(used(key))]
        BY <1>3, <1>4
      <4> HIDE DEF e, again
      <4> QED
        BY <4>1, <4>2
    <3> HIDE DEF e, again
    <3>3. again = e.catalog
      BY <1>3, <3>1, <3>2, SameTable
    <3> QED
      BY <3>3 DEF again
  <2> QED
    BY <2>1, <2>2 DEF Counted
<1>7. ASSUME NEW f, Stored(d, f) PROVE Stored(e, f)
  <2> HIDE DEF e
  <2> QED
    BY <1>1, <1>2, <1>3, <1>7 DEF Stored
<1>8. ASSUME Counted(d) PROVE e = d
  <2>1. d = Tables(d.listings, d.estimates, d.cities, d.catalog)
    BY DEF TablesOK
  <2> HIDE DEF e
  <2> QED
    BY <1>1, <1>8, <2>1 DEF Counted
<1> QED
  BY <1>5, <1>6, <1>7, <1>8

\* Estimating leaves all that is estimated from, and estimating twice is estimating once.
LEMMA EstimatesStay ==
    ASSUME NEW d, TablesOK(d)
    PROVE  /\ TablesOK(Reestimated(d)) /\ Estimated(Reestimated(d))
           /\ Counted(d) => Counted(Reestimated(d))
           /\ \A f : Stored(d, f) => Stored(Reestimated(d), f)
           /\ Estimated(d) => Reestimated(d) = d
<1> DEFINE e == Reestimated(d)
           inputs == EstimatorInputs(d.listings, d.catalog)
<1>1. /\ e = Tables(e.listings, e.estimates, e.cities, e.catalog)
      /\ e.listings = d.listings /\ e.estimates = EstimateAll(inputs)
      /\ e.cities = d.cities /\ e.catalog = d.catalog
  BY DEF Reestimated, Tables
<1>2. IsTable(EstimateAll(inputs)) /\ DOMAIN EstimateAll(inputs) = DOMAIN d.listings
  <2>1. DOMAIN inputs = DOMAIN d.listings
    BY DEF EstimatorInputs
  <2> HIDE DEF inputs
  <2> QED
    BY <2>1 DEF EstimateAll, IsTable
<1> HIDE DEF e, inputs
<1>3. TablesOK(e)
  BY <1>1, <1>2 DEF TablesOK
<1>4. Estimated(e)
  BY <1>1 DEF Estimated, inputs
<1>5. Counted(d) => Counted(e)
  BY <1>1 DEF Counted
<1>6. \A f : Stored(d, f) => Stored(e, f)
  BY <1>1 DEF Stored
<1>7. ASSUME Estimated(d) PROVE e = d
  <2>1. d = Tables(d.listings, d.estimates, d.cities, d.catalog)
    BY DEF TablesOK
  <2>2. d.estimates = EstimateAll(inputs)
    BY <1>7 DEF Estimated, inputs
  <2> QED
    BY <1>1, <2>1, <2>2
<1> QED
  BY <1>3, <1>4, <1>5, <1>6, <1>7 DEF e

\* The rows that are kept are numbered from one.
LEMMA KeptRows ==
    ASSUME NEW f \in Files
    PROVE  \E n \in Nat : DOMAIN Mapped(f) = 1..n
<1> DEFINE kept == {k \in DOMAIN f : ~Rejected(f[k])}
<1>1. IsFiniteSet(1..Len(f)) /\ kept \subseteq 1..Len(f)
  <2>1. Len(f) \in Nat /\ DOMAIN f = 1..Len(f)
    BY IngestAssumption
  <2>2. IsFiniteSet(1..Len(f))
    BY <2>1, FS_Interval
  <2>3. kept \subseteq 1..Len(f)
    BY <2>1
  <2> QED
    BY <2>2, <2>3
<1>2. Cardinality(kept) \in Nat
  <2> HIDE DEF kept
  <2> QED
    BY <1>1, FS_Subset, FS_CardinalityType
<1> QED
  BY <1>2 DEF Mapped

-----------------------------------------------------------------------------
\* The tables of an ingest that stored, counted and estimated a file.
LEMMA InitIngest == Init => IngestInv
<1> SUFFICES ASSUME Init PROVE IngestInv
  OBVIOUS
<1>1. /\ db = Tables(<<>>, <<>>, <<>>, <<>>) /\ lastFile = <<>> /\ file = <<>> /\ stage = "idle"
      /\ db.listings = <<>> /\ db.estimates = <<>> /\ db.cities = <<>> /\ db.catalog = <<>>
  BY DEF Init, Empty, Tables
<1>2. TablesOK(db)
  BY <1>1, EmptyTable DEF TablesOK
<1>3. Stored(db, lastFile)
  <2> DEFINE mapped == [k \in DOMAIN lastFile |-> MapRow(lastFile[k])]
             tokens == [k \in DOMAIN lastFile |-> lastFile[k].token]
             after == UpsertMany(db.listings, mapped, tokens)
  <2>1. ToSet(tokens) = {}
    BY <1>1, EmptyTable DEF ToSet
  <2>2. IsTable(after) /\ DOMAIN after = {}
    <3> HIDE DEF tokens, mapped
    <3> QED
      BY <1>1, <2>1, EmptyTable DEF UpsertMany, Over, IsTable
  <2> HIDE DEF after
  <2>3. after = <<>>
    BY <2>2, EmptyTable, SameTable
  <2> QED
    BY <1>1, <2>3, EmptyTable DEF Stored, after
<1>4. Counted(db)
  <2>1. IsTable(RefreshStatistics(db.cities, db.listings)) /\ DOMAIN RefreshStatistics(db.cities, db.listings) = {}
    BY <1>1, EmptyTable DEF RefreshStatistics, IsTable
  <2>2. IsTable(RefreshCounts(db.catalog, db.listings)) /\ DOMAIN RefreshCounts(db.catalog, db.listings) = {}
    BY <1>1, EmptyTable DEF RefreshCounts, IsTable
  <2> QED
    BY <1>1, <2>1, <2>2, EmptyTable, SameTable DEF Counted
<1>5. Estimated(db)
  <2> DEFINE inputs == EstimatorInputs(db.listings, db.catalog)
  <2>1. DOMAIN inputs = {}
    BY <1>1, EmptyTable DEF EstimatorInputs
  <2> HIDE DEF inputs
  <2>2. IsTable(EstimateAll(inputs)) /\ DOMAIN EstimateAll(inputs) = {}
    BY <2>1 DEF EstimateAll, IsTable
  <2>3. EstimateAll(inputs) = <<>>
    BY <2>2, EmptyTable, SameTable
  <2> QED
    BY <1>1, <2>3 DEF Estimated, inputs
<1> QED
  BY <1>1, <1>2, <1>3, <1>4, <1>5, EmptyTable DEF IngestInv

\* Every step keeps the invariant: one step below per action.
LEMMA IngestStep == IngestInv /\ [Next]_vars => IngestInv'
<1> SUFFICES ASSUME IngestInv, [Next]_vars PROVE IngestInv'
  OBVIOUS
<1>1. PICK n \in Nat : DOMAIN file = 1..n
  BY DEF IngestInv
<1>2. ASSUME End, UNCHANGED <<db, lastFile>> PROVE IngestInv'
  BY <1>2, EmptyTable DEF IngestInv, End
<1>3. ASSUME NEW f \in Files, Start(f) PROVE IngestInv'
  <2>1. CASE End
    BY <1>2, <1>3, <2>1 DEF Start
  <2>2. CASE stage' = "upsert" /\ file' = Mapped(f) /\ tx' = db
    <3>1. \E m \in Nat : DOMAIN file' = 1..m
      BY <2>2, KeptRows
    <3> QED
      BY <1>3, <2>2, <3>1 DEF Start, IngestInv
  <2> QED
    BY <1>3, <2>1, <2>2 DEF Start
<1>4. ASSUME Upsert PROVE IngestInv'
  <2>1. CASE End
    BY <1>2, <1>4, <2>1 DEF Upsert
  <2>2. CASE ~End
    <3>1. stage = "upsert" /\ stage' = "refresh" /\ tx = db /\ UNCHANGED <<db, file, lastFile>>
      BY <1>4, <2>2 DEF Upsert, IngestInv
    <3>2. TablesOK(tx)
      BY <3>1 DEF IngestInv
    <3>3. tx' = Upserted(tx, file)
      <4>1. tx = Tables(tx.listings, tx.estimates, tx.cities, tx.catalog)
        BY <3>2 DEF TablesOK
      <4>2. LET listings == UpsertMany(tx.listings, MappedFile, Tokens)
            IN tx' = [tx EXCEPT !.cities = UpsertNames(@, MappedFile),
                                !.catalog = UpsertEntries(@, MappedFile),
                                !.listings = listings,
                                !.estimates = Over(@, [t \in DOMAIN listings |-> NoEstimate])]
        BY <1>4, <2>2 DEF Upsert
      <4>3. tx' = Tables(UpsertMany(tx.listings, MappedFile, Tokens),
                         Over(tx.estimates, [t \in DOMAIN UpsertMany(tx.listings, MappedFile, Tokens) |-> NoEstimate]),
                         UpsertNames(tx.cities, MappedFile), UpsertEntries(tx.catalog, MappedFile))
        BY <4>1, <4>2 DEF Tables
      <4> QED
        BY <4>3 DEF Upserted, MappedFile, Tokens
    <3>4. TablesOK(tx') /\ Stored(tx', file)
      BY <1>1, <3>2, <3>3, UpsertStores
    <3>5. ASSUME file = lastFile PROVE tx' = db
      <4>1. Stored(tx, file)
        BY <3>1, <3>5 DEF IngestInv
      <4> QED
        BY <1>1, <3>1, <3>2, <3>3, <4>1, UpsertStores
    <3> QED
      BY <3>1, <3>4, <3>5 DEF IngestInv
  <2> QED
    BY <2>1, <2>2
<1>5. ASSUME Refresh PROVE IngestInv'
  <2>1. stage = "refresh" /\ stage' = "estimate" /\ UNCHANGED <<db, file, lastFile>>
    BY <1>5 DEF Refresh
  <2>2. TablesOK(tx) /\ Stored(tx, file) /\ (file = lastFile => tx = db)
    BY <2>1 DEF IngestInv
  <2>3. tx' = Refreshed(tx)
    <3>1. tx = Tables(tx.listings, tx.estimates, tx.cities, tx.catalog)
      BY <2>2 DEF TablesOK
    <3> QED
      BY <1>5, <3>1 DEF Refresh, Refreshed, Tables
  <2>4. TablesOK(tx') /\ Stored(tx', file) /\ Counted(tx')
    BY <2>2, <2>3, RefreshCounted
  <2>5. file = lastFile => tx' = db
    <3>1. Counted(db)
      BY DEF IngestInv
    <3> QED
      BY <2>2, <2>3, <3>1, RefreshCounted
  <2> QED
    BY <2>1, <2>4, <2>5 DEF IngestInv
<1>6. ASSUME EstimateListings PROVE IngestInv'
  <2>1. stage = "estimate" /\ stage' = "bump" /\ UNCHANGED <<db, file, lastFile>>
    BY <1>6 DEF EstimateListings
  <2>2. TablesOK(tx) /\ Stored(tx, file) /\ Counted(tx) /\ (file = lastFile => tx = db)
    BY <2>1 DEF IngestInv
  <2>3. tx' = Reestimated(tx)
    <3>1. tx = Tables(tx.listings, tx.estimates, tx.cities, tx.catalog)
      BY <2>2 DEF TablesOK
    <3> QED
      BY <1>6, <3>1 DEF EstimateListings, Reestimated, Tables
  <2>4. TablesOK(tx') /\ Stored(tx', file) /\ Counted(tx') /\ Estimated(tx')
    BY <2>2, <2>3, EstimatesStay
  <2>5. file = lastFile => tx' = db
    <3>1. Estimated(db)
      BY DEF IngestInv
    <3> QED
      BY <2>2, <2>3, <3>1, EstimatesStay
  <2> QED
    BY <2>1, <2>4, <2>5 DEF IngestInv
<1>7. ASSUME BumpDataVersion PROVE IngestInv'
  BY <1>7 DEF BumpDataVersion, IngestInv
<1>8. ASSUME Commit PROVE IngestInv'
  BY <1>8, EmptyTable DEF Commit, End, IngestInv
<1>9. ASSUME Crash PROVE IngestInv'
  BY <1>2, <1>9 DEF Crash
<1>10. ASSUME UNCHANGED vars PROVE IngestInv'
  BY <1>10 DEF vars, IngestInv
<1> QED
  BY <1>3, <1>4, <1>5, <1>6, <1>7, <1>8, <1>9, <1>10 DEF Next, Finished

THEOREM IngestInvariant == Spec => []IngestInv
BY InitIngest, IngestStep, PTL DEF Spec

\* What readers see was estimated from exactly what they see: the estimates come after
\* everything they are computed from, and no ingest commits before them (pipeline.py, run).
THEOREM EstimatesStayCurrent == Spec => []EstimatesCurrent
<1>1. IngestInv => EstimatesCurrent
  BY DEF IngestInv, Estimated, EstimatesCurrent, Inputs
<1> QED
  BY <1>1, IngestInvariant, PTL

\* A count that an entry or a city with listings shows is the number of them, also after
\* listings moved to another city or entry: both counts come after the upsert (pipeline.py, run).
THEOREM CountsStayCurrent == Spec => []CountsCurrentWhereUsed
<1>1. IngestInv => CountsCurrentWhereUsed
  <2> SUFFICES ASSUME IngestInv, NEW t \in Listings
      PROVE  LET row == db.listings[t]
                 sharing(field) == {u \in Listings : db.listings[u][field] = row[field]}
             IN /\ db.cities[row.city] = Cardinality(sharing("city"))
                /\ row.catalog # NULL =>
                     db.catalog[row.catalog].count = Cardinality(sharing("catalog"))
    BY DEF CountsCurrentWhereUsed
  <2> DEFINE row == db.listings[t]
             here == {u \in Listings : db.listings[u].city = row.city}
             used == {u \in Listings : db.listings[u].catalog = row.catalog}
  <2>1. t \in here /\ t \in used
    OBVIOUS
  <2>2. row.city \in DOMAIN db.cities /\ row.catalog \in DOMAIN db.catalog \cup {NULL}
    BY DEF IngestInv, TablesOK, Listings
  <2>3. db.cities[row.city] = Cardinality(here)
    <3>1. db.cities = RefreshStatistics(db.cities, db.listings)
      BY DEF IngestInv, Counted
    <3>2. RefreshStatistics(db.cities, db.listings)[row.city] = Cardinality(here)
      BY <2>1, <2>2 DEF RefreshStatistics, Listings
    <3> QED
      BY <3>1, <3>2
  <2>4. ASSUME row.catalog # NULL PROVE db.catalog[row.catalog].count = Cardinality(used)
    <3>1. db.catalog = RefreshCounts(db.catalog, db.listings)
      BY DEF IngestInv, Counted
    <3>2. RefreshCounts(db.catalog, db.listings)[row.catalog]
            = [db.catalog[row.catalog] EXCEPT !.count = Cardinality(used)]
      BY <2>1, <2>2, <2>4 DEF RefreshCounts, Listings
    <3>3. db.catalog[row.catalog] = [brand |-> db.catalog[row.catalog].brand,
                                     model |-> db.catalog[row.catalog].model,
                                     count |-> db.catalog[row.catalog].count]
      BY <2>2, <2>4 DEF IngestInv, TablesOK
    <3>4. [db.catalog[row.catalog] EXCEPT !.count = Cardinality(used)].count = Cardinality(used)
      BY <3>3
    <3> QED
      BY <3>1, <3>2, <3>4
  <2> QED
    BY <2>3, <2>4
<1> QED
  BY <1>1, IngestInvariant, PTL

\* Ingesting the file that was ingested last changes nothing, crashes of other ingests in
\* between included (pipeline.py:2).
THEOREM IngestsOnce == Spec => Idempotent
<1>1. IngestInv /\ [Next]_vars =>
        [stage = "commit" /\ file = lastFile /\ stage' = "idle" => db' = db]_vars
  <2> SUFFICES ASSUME IngestInv, Next, stage = "commit", file = lastFile PROVE db' = db
    BY DEF vars
  <2>1. tx = db
    BY DEF IngestInv
  <2> QED
    BY <2>1 DEF Next, Start, End, Upsert, Refresh, EstimateListings, BumpDataVersion, Commit,
                Crash, Finished, vars
<1> QED
  BY <1>1, IngestInvariant, PTL DEF Spec, Idempotent

-----------------------------------------------------------------------------
\* The rows that were read.

\* Kept rows are numbered without a gap: for each place there is the row that takes it.
LEMMA PlaceTaken ==
    ASSUME NEW S \in SUBSET Int, IsFiniteSet(S), NEW n \in 1..Cardinality(S)
    PROVE  \E k \in S : Cardinality({j \in S : j <= k}) = n
<1> DEFINE upTo(k) == {j \in S : j <= k}
           place == [k \in S |-> Cardinality(upTo(k))]
           N == Cardinality(S)
<1>1. N \in Nat /\ IsFiniteSet(1..N) /\ Cardinality(1..N) = N
  <2>1. N \in Nat
    BY FS_CardinalityType
  <2>2. 1 \in Int /\ N \in Int
    BY <2>1
  <2> HIDE DEF N
  <2> QED
    BY <2>1, <2>2, FS_Interval
<1>2. ASSUME NEW k \in S
      PROVE  /\ upTo(k) \in SUBSET S /\ k \in upTo(k)
             /\ IsFiniteSet(upTo(k)) /\ Cardinality(upTo(k)) \in 1..N
  <2>1. upTo(k) \in SUBSET S /\ k \in upTo(k)
    OBVIOUS
  <2> HIDE DEF upTo
  <2>2. IsFiniteSet(upTo(k)) /\ Cardinality(upTo(k)) <= N
    BY <2>1, FS_Subset
  <2>3. Cardinality(upTo(k)) \in Nat /\ Cardinality(upTo(k)) # 0
    BY <2>1, <2>2, FS_CardinalityType, FS_EmptySet
  <2> QED
    BY <1>1, <2>1, <2>2, <2>3
<1>3. ASSUME NEW j \in S, NEW k \in S, j < k PROVE place[j] # place[k]
  <2>1. upTo(j) \in SUBSET upTo(k) /\ k \notin upTo(j)
    <3>1. j \in Int /\ k \in Int /\ \A i \in S : i \in Int
      OBVIOUS
    <3>2. \A i \in S : i <= j => i <= k
      BY <1>3, <3>1
    <3>3. k \notin upTo(j)
      BY <1>3, <3>1
    <3>4. \A i \in upTo(j) : i \in upTo(k)
      BY <3>2
    <3> QED
      BY <3>3, <3>4
  <2> HIDE DEF upTo
  <2> QED
    BY <1>2, <2>1, FS_Subset
<1>4. place \in Injection(S, 1..N)
  <2>1. place \in [S -> 1..N]
    BY <1>2
  <2>2. \A j, k \in S : place[j] = place[k] => j = k
    BY <1>3
  <2> HIDE DEF place
  <2> QED
    BY <2>1, <2>2 DEF Injection, IsInjective
<1>5. place \in Surjection(S, 1..N)
  <2> HIDE DEF place
  <2> QED
    BY <1>1, <1>4, FS_Injection
<1>6. PICK k \in S : place[k] = n
  BY <1>5 DEF Surjection
<1> QED
  BY <1>6

\* The raw rows of all files.
RawRows == UNION {{f[k] : k \in DOMAIN f} : f \in Files}

LEMMA MappedAreRead ==
    ASSUME NEW f \in Files
    PROVE  \A n \in DOMAIN Mapped(f) : Mapped(f)[n] \in RawRows
<1> DEFINE kept == {k \in DOMAIN f : ~Rejected(f[k])}
           place(k) == Cardinality({j \in kept : j <= k})
<1>1. Mapped(f) = [n \in 1..Cardinality(kept) |-> f[CHOOSE k \in kept : place(k) = n]]
  BY DEF Mapped
<1>2. kept \in SUBSET Int /\ IsFiniteSet(kept) /\ kept \subseteq DOMAIN f
  <2>1. Len(f) \in Nat /\ DOMAIN f = 1..Len(f)
    BY IngestAssumption
  <2>2. IsFiniteSet(1..Len(f))
    BY <2>1, FS_Interval
  <2>3. kept \in SUBSET (1..Len(f))
    BY <2>1
  <2> QED
    BY <2>1, <2>2, <2>3, FS_Subset
<1> HIDE DEF kept
<1>3. \A n \in 1..Cardinality(kept) : (CHOOSE k \in kept : place(k) = n) \in kept
  BY <1>2, PlaceTaken
<1>4. ASSUME NEW n \in DOMAIN Mapped(f) PROVE Mapped(f)[n] \in RawRows
  <2> DEFINE k == CHOOSE i \in kept : place(i) = n
  <2>1. n \in 1..Cardinality(kept) /\ Mapped(f)[n] = f[k]
    BY <1>1, <1>4
  <2>2. k \in DOMAIN f
    BY <1>2, <1>3, <2>1
  <2> HIDE DEF k
  <2> QED
    BY <2>1, <2>2 DEF RawRows
<1> QED
  BY <1>4

\* The listings are finitely many, each of them mapped from a row of some file.
FromFiles(listings) ==
  /\ IsFiniteSet(DOMAIN listings)
  /\ \A t \in DOMAIN listings : \E raw \in RawRows : listings[t] = MapRow(raw)

ListingsRead ==
  /\ FromFiles(db.listings) /\ FromFiles(tx.listings)
  /\ \A k \in DOMAIN file : file[k] \in RawRows

LEMMA EmptyFromFiles == FromFiles(Empty.listings) /\ \A k \in DOMAIN <<>> : <<>>[k] \in RawRows
BY EmptyTable, FS_EmptySet DEF FromFiles, Empty, Tables

LEMMA UpsertFromFiles ==
    ASSUME NEW n \in Nat, NEW f, DOMAIN f = 1..n, \A k \in DOMAIN f : f[k] \in RawRows,
           NEW listings, FromFiles(listings)
    PROVE  FromFiles(UpsertMany(listings, [k \in DOMAIN f |-> MapRow(f[k])],
                                [k \in DOMAIN f |-> f[k].token]))
<1> DEFINE mapped == [k \in DOMAIN f |-> MapRow(f[k])]
           tokens == [k \in DOMAIN f |-> f[k].token]
           rows == [t \in ToSet(tokens) |-> mapped[LastWith(tokens, t)]]
           after == UpsertMany(listings, mapped, tokens)
<1>1. IsFiniteSet(ToSet(tokens))
  <2>1. tokens \in Surjection(DOMAIN f, ToSet(tokens))
    BY DEF Surjection, ToSet
  <2>2. IsFiniteSet(1..n)
    BY FS_Interval
  <2> HIDE DEF tokens
  <2> QED
    BY <2>1, <2>2, FS_Surjection
<1>2. after = Over(rows, listings)
  BY DEF UpsertMany
<1>3. \A t \in ToSet(tokens) : \E raw \in RawRows : rows[t] = MapRow(raw)
  <2>1. DOMAIN tokens = 1..n
    OBVIOUS
  <2>2. \A t \in ToSet(tokens) : LastWith(tokens, t) \in DOMAIN tokens
    <3> HIDE DEF tokens
    <3> QED
      BY <2>1, LastRow
  <2> QED
    BY <2>2
<1>4. DOMAIN rows = ToSet(tokens)
  OBVIOUS
<1> HIDE DEF rows, tokens, after
<1>5. DOMAIN after = ToSet(tokens) \cup DOMAIN listings
  BY <1>2, <1>4 DEF Over
<1>6. IsFiniteSet(DOMAIN after)
  BY <1>1, <1>5, FS_Union DEF FromFiles
<1>7. ASSUME NEW t \in DOMAIN after PROVE \E raw \in RawRows : after[t] = MapRow(raw)
  <2>1. CASE t \in ToSet(tokens)
    <3>1. after[t] = rows[t]
      BY <1>2, <1>4, <1>7, <2>1 DEF Over
    <3> QED
      BY <1>3, <2>1, <3>1
  <2>2. CASE t \notin ToSet(tokens)
    <3>1. after[t] = listings[t] /\ t \in DOMAIN listings
      BY <1>2, <1>4, <1>5, <1>7, <2>2 DEF Over
    <3> QED
      BY <3>1 DEF FromFiles
  <2> QED
    BY <2>1, <2>2
<1> QED
  BY <1>6, <1>7 DEF FromFiles, after, tokens

\* Every step keeps the listings among the rows of the files.
LEMMA ListingsStep == IngestInv /\ ListingsRead /\ [Next]_vars => ListingsRead'
<1> SUFFICES ASSUME IngestInv, ListingsRead, [Next]_vars PROVE ListingsRead'
  OBVIOUS
<1>1. ASSUME End, FromFiles(db'.listings) PROVE ListingsRead'
  BY <1>1, EmptyFromFiles DEF End, ListingsRead
<1>2. ASSUME NEW f \in Files, Start(f) PROVE ListingsRead'
  <2>1. CASE End
    BY <1>1, <1>2, <2>1 DEF Start, ListingsRead
  <2>2. CASE file' = Mapped(f) /\ tx' = db
    BY <1>2, <2>2, MappedAreRead DEF Start, ListingsRead
  <2> QED
    BY <1>2, <2>1, <2>2 DEF Start
<1>3. ASSUME Upsert PROVE ListingsRead'
  <2>1. CASE End
    BY <1>1, <1>3, <2>1 DEF Upsert, ListingsRead
  <2>2. CASE ~End
    <3>1. PICK n \in Nat : DOMAIN file = 1..n
      BY DEF IngestInv
    <3>2. UNCHANGED <<db, file>> /\ stage = "upsert"
      BY <1>3, <2>2 DEF Upsert
    <3>3. tx'.listings = UpsertMany(tx.listings, MappedFile, Tokens)
      <4>1. tx = Tables(tx.listings, tx.estimates, tx.cities, tx.catalog)
        BY <3>2 DEF IngestInv, TablesOK
      <4>2. LET listings == UpsertMany(tx.listings, MappedFile, Tokens)
            IN tx' = [tx EXCEPT !.cities = UpsertNames(@, MappedFile),
                                !.catalog = UpsertEntries(@, MappedFile),
                                !.listings = listings,
                                !.estimates = Over(@, [t \in DOMAIN listings |-> NoEstimate])]
        BY <1>3, <2>2 DEF Upsert
      <4> QED
        BY <4>1, <4>2 DEF Tables
    <3>4. FromFiles(UpsertMany(tx.listings, MappedFile, Tokens))
      BY <3>1, UpsertFromFiles DEF ListingsRead, MappedFile, Tokens
    <3> QED
      BY <3>2, <3>3, <3>4 DEF ListingsRead
  <2> QED
    BY <2>1, <2>2
<1>4. ASSUME Refresh \/ EstimateListings PROVE ListingsRead'
  <2>1. tx = Tables(tx.listings, tx.estimates, tx.cities, tx.catalog)
    BY <1>4 DEF Refresh, EstimateListings, IngestInv, TablesOK
  <2>2. tx'.listings = tx.listings /\ UNCHANGED <<db, file>>
    BY <1>4, <2>1 DEF Refresh, EstimateListings, Tables
  <2> QED
    BY <2>2 DEF ListingsRead
<1>5. ASSUME BumpDataVersion \/ UNCHANGED vars PROVE ListingsRead'
  BY <1>5 DEF BumpDataVersion, vars, ListingsRead
<1>6. ASSUME Commit PROVE ListingsRead'
  BY <1>1, <1>6 DEF Commit, ListingsRead
<1>7. ASSUME Crash PROVE ListingsRead'
  BY <1>1, <1>7 DEF Crash, ListingsRead
<1> QED
  BY <1>2, <1>3, <1>4, <1>5, <1>6, <1>7 DEF Next, Finished

LEMMA ListingsAreRead == Spec => []ListingsRead
<1>1. Init => ListingsRead
  BY EmptyFromFiles DEF Init, ListingsRead
<1> QED
  BY <1>1, ListingsStep, IngestInvariant, PTL DEF Spec

-----------------------------------------------------------------------------
\* Numbers in order.

\* A finite set of numbers has a least and a greatest one.
LEMMA LeastNumber ==
    ASSUME NEW S \in SUBSET Int, IsFiniteSet(S), S # {}
    PROVE  Min(S) \in S /\ \A y \in S : Min(S) <= y
<1> DEFINE below(x) == {y \in S : y < x}
           N == {Cardinality(below(x)) : x \in S}
           R == OpToRel(<, Nat)
<1>1. \A x \in S : IsFiniteSet(below(x)) /\ Cardinality(below(x)) \in Nat
  <2> SUFFICES ASSUME NEW x \in S PROVE IsFiniteSet(below(x)) /\ Cardinality(below(x)) \in Nat
    OBVIOUS
  <2>1. below(x) \in SUBSET S
    OBVIOUS
  <2> HIDE DEF below
  <2> QED
    BY <2>1, FS_Subset, FS_CardinalityType
<1>2. N # {} /\ N \subseteq Nat
  BY <1>1
<1>3. PICK m \in N : \A x \in N : <<x, m>> \notin R
  <2>1. IsWellFoundedOn(R, Nat)
    BY NatLessThanWellFounded
  <2> HIDE DEF R, N
  <2> QED
    BY <1>2, <2>1, WFMin
<1>4. PICK x \in S : m = Cardinality(below(x))
  OBVIOUS
<1>5. ASSUME NEW y \in S PROVE x <= y
  <2>1. SUFFICES ASSUME y < x PROVE FALSE
    OBVIOUS
  <2>2. below(y) \in SUBSET below(x) /\ y \in below(x) /\ y \notin below(y)
    <3>1. x \in Int /\ y \in Int /\ \A z \in S : z \in Int
      OBVIOUS
    <3>2. \A z \in S : z < y => z < x
      BY <2>1, <3>1
    <3>3. y \in below(x)
      BY <2>1
    <3>4. y \notin below(y)
      BY <3>1
    <3>5. \A z \in below(y) : z \in below(x)
      BY <3>2
    <3> QED
      BY <3>3, <3>4, <3>5
  <2>3. /\ IsFiniteSet(below(x)) /\ Cardinality(below(x)) \in Nat
        /\ Cardinality(below(y)) \in Nat
    BY <1>1
  <2>4. Cardinality(below(y)) \in N
    OBVIOUS
  <2>5. Cardinality(below(y)) <= Cardinality(below(x)) /\ Cardinality(below(y)) # Cardinality(below(x))
    <3> HIDE DEF below, N
    <3> QED
      BY <2>2, <2>3, FS_Subset
  <2>6. <<Cardinality(below(y)), m>> \in R
    <3> HIDE DEF below, N
    <3> QED
      BY <1>4, <2>3, <2>5 DEF OpToRel
  <2> HIDE DEF R, N
  <2> QED
    BY <1>3, <2>4, <2>6
<1>6. \E z \in S : \A y \in S : z <= y
  BY <1>5
<1> QED
  BY <1>6 DEF Min

LEMMA GreatestNumber ==
    ASSUME NEW S \in SUBSET Int, IsFiniteSet(S), S # {}
    PROVE  \E x \in S : \A y \in S : y <= x
<1> DEFINE T == {-x : x \in S}
           f == [x \in S |-> -x]
<1>1. f \in Surjection(S, T)
  BY DEF Surjection
<1>2. IsFiniteSet(T)
  <2> HIDE DEF T, f
  <2> QED
    BY <1>1, FS_Surjection
<1>3. T \in SUBSET Int /\ T # {}
  OBVIOUS
<1>4. Min(T) \in T /\ \A y \in T : Min(T) <= y
  <2> HIDE DEF T
  <2> QED
    BY <1>2, <1>3, LeastNumber
<1>5. PICK x \in S : Min(T) = -x
  BY <1>4
<1>6. ASSUME NEW y \in S PROVE y <= x
  <2>1. -y \in T
    OBVIOUS
  <2>2. -x <= -y
    BY <1>4, <1>5, <2>1
  <2> QED
    BY <2>2
<1> QED
  BY <1>6

\* How many of the listings have a value of at most v.
UpTo(ids, value, v) == Cardinality({i \in ids : value[i] <= v})

\* The values that at least k of them do not exceed.
Above(ids, value, k) == {v \in {value[i] : i \in ids} : UpTo(ids, value, v) >= k}

Numbered(ids, value) == IsFiniteSet(ids) /\ \A i \in ids : value[i] \in Int

LEMMA SortedByIs ==
    ASSUME NEW ids, NEW value
    PROVE  /\ SortedBy(ids, value) = [k \in 1..Cardinality(ids) |-> Min(Above(ids, value, k))]
BY DEF SortedBy, Above, UpTo

LEMMA AboveFound ==
    ASSUME NEW ids, NEW value, Numbered(ids, value), NEW k \in 1..Cardinality(ids)
    PROVE  /\ Above(ids, value, k) \in SUBSET Int
           /\ IsFiniteSet(Above(ids, value, k))
           /\ Above(ids, value, k) # {}
<1> DEFINE V == {value[i] : i \in ids}
           f == [i \in ids |-> value[i]]
<1>1. Cardinality(ids) \in Nat /\ ids # {}
  BY FS_CardinalityType, FS_EmptySet DEF Numbered
<1>2. IsFiniteSet(V)
  <2>1. f \in Surjection(ids, V)
    BY DEF Surjection
  <2> HIDE DEF f, V
  <2> QED
    BY <2>1, FS_Surjection DEF Numbered
<1>3. V \in SUBSET Int /\ V # {}
  BY <1>1 DEF Numbered
<1>4. Above(ids, value, k) \in SUBSET V
  BY DEF Above
<1>5. PICK top \in V : \A y \in V : y <= top
  <2> HIDE DEF V
  <2> QED
    BY <1>2, <1>3, GreatestNumber
<1>6. {i \in ids : value[i] <= top} = ids
  BY <1>5
<1>7. top \in Above(ids, value, k)
  BY <1>1, <1>6 DEF Above, UpTo
<1> HIDE DEF V
<1> QED
  BY <1>2, <1>3, <1>4, <1>7, FS_Subset

\* The values in order are values, and in order.
LEMMA SortedValues ==
    ASSUME NEW ids, NEW value, Numbered(ids, value)
    PROVE  /\ Cardinality(ids) \in Nat
           /\ DOMAIN SortedBy(ids, value) = 1..Cardinality(ids)
           /\ Len(SortedBy(ids, value)) = Cardinality(ids)
           /\ \A k \in 1..Cardinality(ids) :
                 \E i \in ids : SortedBy(ids, value)[k] = value[i]
           /\ \A k, l \in 1..Cardinality(ids) :
                 k <= l => SortedBy(ids, value)[k] <= SortedBy(ids, value)[l]
<1> DEFINE s == SortedBy(ids, value)
<1>1. Cardinality(ids) \in Nat
  BY FS_CardinalityType DEF Numbered
<1>2. s = [k \in 1..Cardinality(ids) |-> Min(Above(ids, value, k))]
  BY SortedByIs
<1> HIDE DEF s
<1>3. \A k \in 1..Cardinality(ids) :
         /\ s[k] \in Above(ids, value, k)
         /\ \A v \in Above(ids, value, k) : s[k] <= v
  BY <1>2, AboveFound, LeastNumber
<1>4. ASSUME NEW k \in 1..Cardinality(ids) PROVE \E i \in ids : s[k] = value[i]
  BY <1>3 DEF Above
<1>5. ASSUME NEW k \in 1..Cardinality(ids), NEW l \in 1..Cardinality(ids), k <= l
      PROVE  s[k] <= s[l]
  <2>1. s[l] \in {value[i] : i \in ids} /\ UpTo(ids, value, s[l]) >= l
    BY <1>3 DEF Above
  <2>2. UpTo(ids, value, s[l]) \in Nat
    <3>1. {i \in ids : value[i] <= s[l]} \in SUBSET ids
      OBVIOUS
    <3> QED
      BY <3>1, FS_Subset, FS_CardinalityType DEF UpTo, Numbered
  <2>3. s[l] \in Above(ids, value, k)
    BY <1>5, <2>1, <2>2 DEF Above
  <2> QED
    BY <1>3, <2>3
<1>6. DOMAIN s = 1..Cardinality(ids) /\ Len(s) = Cardinality(ids)
  <2>1. DOMAIN s = 1..Cardinality(ids)
    BY <1>2
  <2>2. \A k \in 1..Cardinality(ids) : s[k] \in Int
    BY <1>4 DEF Numbered
  <2>3. s \in Seq(Int)
    <3>1. s \in [1..Cardinality(ids) -> Int]
      BY <1>2, <2>2
    <3> QED
      BY <1>1, <3>1 DEF Seq
  <2> QED
    BY <1>1, <2>1, <2>3
<1> QED
  BY <1>1, <1>4, <1>5, <1>6 DEF s

\* Two sets of listings with the same values, as often, have the same values in order.
LEMMA SortedSame ==
    ASSUME NEW ids, NEW value, IsFiniteSet(ids), NEW ids2, NEW value2,
           NEW f \in Bijection(ids, ids2), \A i \in ids : value2[f[i]] = value[i]
    PROVE  Cardinality(ids2) = Cardinality(ids) /\ SortedBy(ids2, value2) = SortedBy(ids, value)
<1>1. /\ f \in [ids -> ids2]
      /\ \A i, j \in ids : f[i] = f[j] => i = j
      /\ \A j \in ids2 : \E i \in ids : f[i] = j
  BY DEF Bijection, Injection, Surjection, IsInjective
<1>2. Cardinality(ids2) = Cardinality(ids)
  BY FS_Bijection DEF ExistsBijection
<1>3. {value2[j] : j \in ids2} = {value[i] : i \in ids}
  BY <1>1
<1>4. ASSUME NEW v PROVE UpTo(ids2, value2, v) = UpTo(ids, value, v)
  <2> DEFINE A == {i \in ids : value[i] <= v}
             B == {j \in ids2 : value2[j] <= v}
             g == [i \in A |-> f[i]]
  <2>1. A \in SUBSET ids
    OBVIOUS
  <2>2. g \in [A -> B] /\ (\A i, j \in A : g[i] = g[j] => i = j)
    BY <1>1
  <2>3. \A j \in B : \E i \in A : g[i] = j
    BY <1>1
  <2>4. g \in Bijection(A, B)
    <3> HIDE DEF g, A, B
    <3> QED
      BY <2>2, <2>3 DEF Bijection, Injection, Surjection, IsInjective
  <2>5. IsFiniteSet(A)
    BY <2>1, FS_Subset
  <2>6. Cardinality(B) = Cardinality(A)
    <3> HIDE DEF A, B, g
    <3> QED
      BY <2>4, <2>5, FS_Bijection DEF ExistsBijection
  <2> QED
    BY <2>6 DEF UpTo
<1>5. \A k : Above(ids2, value2, k) = Above(ids, value, k)
  BY <1>3, <1>4 DEF Above
<1> QED
  BY <1>2, <1>5, SortedByIs

LEMMA SortedAlike ==
    ASSUME NEW ids, NEW value, NEW value2, IsFiniteSet(ids), \A i \in ids : value2[i] = value[i]
    PROVE  SortedBy(ids, value2) = SortedBy(ids, value)
<1> DEFINE f == [i \in ids |-> i]
<1>1. f \in Bijection(ids, ids) /\ \A i \in ids : value2[f[i]] = value[i]
  BY DEF Bijection, Injection, Surjection, IsInjective
<1> HIDE DEF f
<1> QED
  BY <1>1, SortedSame

Price(rows) == [i \in DOMAIN rows |-> rows[i].price]

\* Whoever's price is removed, the prices left are those of the other listings.
LEMMA LeavesOneOut ==
    ASSUME NEW rows, NEW group \in SUBSET DOMAIN rows, IsFiniteSet(group), NEW t \in group
    PROVE  LET left == RemoveOne(rows, group, rows[t].price)
           IN /\ Cardinality(left) = Cardinality(group \ {t})
              /\ SortedBy(left, Price(rows)) = SortedBy(group \ {t}, Price(rows))
<1> DEFINE c == CHOOSE i \in group : rows[i].price = rows[t].price
           f == [i \in group \ {t} |-> IF i = c THEN t ELSE i]
<1>1. c \in group /\ rows[c].price = rows[t].price
  OBVIOUS
<1>2. RemoveOne(rows, group, rows[t].price) = group \ {c}
  BY DEF RemoveOne
<1> HIDE DEF c
<1>3. f \in Bijection(group \ {t}, group \ {c})
  <2>1. f \in [group \ {t} -> group \ {c}]
    BY <1>1
  <2>2. \A i, j \in group \ {t} : f[i] = f[j] => i = j
    BY <1>1
  <2>3. ASSUME NEW j \in group \ {c} PROVE \E i \in group \ {t} : f[i] = j
    <3>1. CASE j = t
      <4>1. c \in group \ {t} /\ f[c] = t
        BY <1>1, <2>3, <3>1
      <4> QED
        BY <3>1, <4>1
    <3>2. CASE j # t
      <4>1. j \in group \ {t} /\ f[j] = j
        BY <2>3, <3>2
      <4> QED
        BY <4>1
    <3> QED
      BY <3>1, <3>2
  <2> HIDE DEF f
  <2> QED
    BY <2>1, <2>2, <2>3 DEF Bijection, Injection, Surjection, IsInjective
<1>4. \A i \in group \ {t} : Price(rows)[f[i]] = Price(rows)[i]
  BY <1>1 DEF Price
<1>5. IsFiniteSet(group \ {t})
  BY FS_RemoveElement
<1> HIDE DEF f
<1>6. /\ Cardinality(group \ {c}) = Cardinality(group \ {t})
      /\ SortedBy(group \ {c}, Price(rows)) = SortedBy(group \ {t}, Price(rows))
  BY <1>3, <1>4, <1>5, SortedSame
<1> QED
  BY <1>2, <1>6

\* The attempts that collect enough comparables.
FoundIn(rows, row, leaveOut) ==
  {a \in 1..4 : Cardinality(Peers(rows, row, Attempts[a], leaveOut)) >= MIN_COMPARABLES}

LEMMA BasisIs ==
    ASSUME NEW rows, NEW row, NEW leaveOut
    PROVE  /\ FoundIn(rows, row, leaveOut) = {} => BasisOf(rows, row, leaveOut) = NoBasis
           /\ FoundIn(rows, row, leaveOut) # {} =>
                /\ Min(FoundIn(rows, row, leaveOut)) \in FoundIn(rows, row, leaveOut)
                /\ BasisOf(rows, row, leaveOut)
                     = Based(rows, row, Attempts[Min(FoundIn(rows, row, leaveOut))], leaveOut)
<1> DEFINE found == FoundIn(rows, row, leaveOut)
<1>1. Len(Attempts) = 4
  BY DEF Attempts
<1>2. BasisOf(rows, row, leaveOut) =
        IF (IF found # {} THEN Min(found) ELSE 0) = 0 THEN NoBasis
        ELSE Based(rows, row, Attempts[IF found # {} THEN Min(found) ELSE 0], leaveOut)
  BY <1>1 DEF BasisOf, SelectInSeq, FoundIn
<1>3. found # {} => Min(found) \in found
  <2>1. found \in SUBSET (1..4) /\ found \in SUBSET Int
    BY DEF FoundIn
  <2>2. IsFiniteSet(1..4)
    <3>1. 1 \in Int /\ 4 \in Int
      OBVIOUS
    <3> QED
      BY <3>1, FS_Interval
  <2> HIDE DEF found
  <2>3. IsFiniteSet(found)
    BY <2>1, <2>2, FS_Subset
  <2> QED
    BY <2>1, <2>3, LeastNumber
<1>4. found \subseteq 1..4
  BY DEF FoundIn
<1> HIDE DEF found
<1>5. found # {} => Min(found) # 0
  BY <1>3, <1>4
<1> QED
  BY <1>2, <1>3, <1>5 DEF found

SamePrices(rows2, peers2, rows, peers) ==
  /\ Cardinality(peers2) = Cardinality(peers)
  /\ SortedBy(peers2, Price(rows2)) = SortedBy(peers, Price(rows))

\* Peers that are as many and have the same prices give the same basis.
LEMMA SameBasis ==
    ASSUME NEW rows, NEW row, NEW leaveOut, NEW rows2, NEW row2, NEW leaveOut2,
           \A a \in 1..4 : SamePrices(rows2, Peers(rows2, row2, Attempts[a], leaveOut2),
                                    rows, Peers(rows, row, Attempts[a], leaveOut))
    PROVE  BasisOf(rows2, row2, leaveOut2) = BasisOf(rows, row, leaveOut)
<1>1. FoundIn(rows2, row2, leaveOut2) = FoundIn(rows, row, leaveOut)
  BY DEF FoundIn, SamePrices
<1>2. \A a \in 1..4 : Based(rows2, row2, Attempts[a], leaveOut2) = Based(rows, row, Attempts[a], leaveOut)
  BY DEF Based, Price, SamePrices
<1>3. FoundIn(rows, row, leaveOut) \subseteq 1..4
  BY DEF FoundIn
<1> QED
  BY <1>1, <1>2, <1>3, BasisIs

-----------------------------------------------------------------------------
\* What the estimator reads.

\* What the parsers let through, with the fields the estimator reads.
RowOK(row) ==
  /\ IsTable(row)
  /\ {"category", "trim", "model", "year", "km", "price", "insurance", "body", "source"}
       \subseteq DOMAIN row
  /\ row.price \in (Nat \ {0}) \cup {NULL}
  /\ row.year \in Int \cup {NULL}
  /\ row.km \in Nat \cup {NULL}
  /\ row.insurance \in (0..MAX_INSURANCE_MONTHS) \cup {NULL}
  /\ row.body \in DOMAIN BodyFactors \cup {NULL}

MarketOK(rows) == IsFiniteSet(DOMAIN rows) /\ IsTable(rows) /\ \A t \in DOMAIN rows : RowOK(rows[t])

LEMMA ParsedRow ==
    ASSUME NEW raw, NumbersRead(raw)
    PROVE  /\ ParsePrice(raw) \in (Nat \ {0}) \cup {NULL}
           /\ ParseYear(raw) \in Int \cup {NULL}
           /\ ParseKm(raw) \in Nat \cup {NULL}
           /\ ParseInsurance(raw) \in (0..MAX_INSURANCE_MONTHS) \cup {NULL}
           /\ raw.body \in DOMAIN BodyFactors \cup {NULL}
<1>1. /\ raw.price \in Nat \cup {NULL} /\ raw.year \in Nat \cup {NULL}
      /\ raw.km \in Nat \cup {NULL} /\ raw.insurance \in Nat \cup {NULL}
      /\ raw.body \in DOMAIN BodyFactors \cup {NULL}
  BY DEF NumbersRead
<1>2. ParsePrice(raw) \in (Nat \ {0}) \cup {NULL}
  BY <1>1, IngestAssumption DEF ParsePrice
<1>3. ParseYear(raw) \in Int \cup {NULL}
  <2>1. \A y : y \in MIN_JALALI_YEAR..MAX_JALALI_YEAR => y \in Int
    OBVIOUS
  <2> QED
    BY <2>1 DEF ParseYear
<1>4. ParseKm(raw) \in Nat \cup {NULL}
  BY <1>1 DEF ParseKm
<1>5. ParseInsurance(raw) \in (0..MAX_INSURANCE_MONTHS) \cup {NULL}
  BY <1>1 DEF ParseInsurance, MAX_INSURANCE_MONTHS
<1> QED
  BY <1>1, <1>2, <1>3, <1>4, <1>5

LEMMA JoinedRow ==
    ASSUME NEW raw, NumbersRead(raw), NEW trim, NEW model
    PROVE  RowOK(Over(MapRow(raw), [trim |-> trim, model |-> model]))
<1> DEFINE mapped == MapRow(raw)
           entry == [trim |-> trim, model |-> model]
           row == Over(mapped, entry)
<1>1. DOMAIN mapped = {"category", "catalog", "city", "year", "km", "price", "insurance", "body", "source"}
  BY DEF MapRow
<1>2. DOMAIN entry = {"trim", "model"}
  OBVIOUS
<1>3. /\ mapped.price = ParsePrice(raw) /\ mapped.year = ParseYear(raw) /\ mapped.km = ParseKm(raw)
      /\ mapped.insurance = ParseInsurance(raw) /\ mapped.body = raw.body
  BY DEF MapRow
<1>4. IsTable(row) /\ DOMAIN row = DOMAIN mapped \cup DOMAIN entry
  <2> HIDE DEF mapped, entry
  <2> QED
    BY DEF Over, IsTable
<1>5. \A f \in DOMAIN mapped : row[f] = mapped[f]
  <2> HIDE DEF mapped, entry
  <2> QED
    BY DEF Over
<1> HIDE DEF mapped, entry, row
<1>6. /\ row.price = mapped.price /\ row.year = mapped.year /\ row.km = mapped.km
      /\ row.insurance = mapped.insurance /\ row.body = mapped.body
  BY <1>1, <1>5
<1>7. {"category", "trim", "model", "year", "km", "price", "insurance", "body", "source"}
       \subseteq DOMAIN row
  BY <1>1, <1>2, <1>4
<1>8. RowOK(row)
  BY <1>3, <1>4, <1>6, <1>7, ParsedRow DEF RowOK
<1> QED
  BY <1>8 DEF row, mapped, entry

LEMMA MarketRead ==
    ASSUME NEW listings, NEW catalog, FromFiles(listings)
    PROVE  /\ MarketOK(EstimatorInputs(listings, catalog))
           /\ DOMAIN EstimatorInputs(listings, catalog) = DOMAIN listings
<1> DEFINE rows == EstimatorInputs(listings, catalog)
<1>1. DOMAIN rows = DOMAIN listings /\ IsTable(rows)
  BY DEF EstimatorInputs, IsTable
<1>2. ASSUME NEW t \in DOMAIN rows PROVE RowOK(rows[t])
  <2>1. PICK raw \in RawRows : listings[t] = MapRow(raw)
    BY <1>1 DEF FromFiles
  <2>2. NumbersRead(raw)
    BY <2>1, IngestAssumption DEF RawRows
  <2>3. \E trim, model : rows[t] = Over(MapRow(raw), [trim |-> trim, model |-> model])
    BY <1>1, <1>2, <2>1 DEF EstimatorInputs
  <2> HIDE DEF rows
  <2> QED
    BY <2>2, <2>3, JoinedRow
<1> HIDE DEF rows
<1>3. MarketOK(rows)
  BY <1>1, <1>2 DEF MarketOK, FromFiles
<1> QED
  BY <1>1, <1>3 DEF rows

-----------------------------------------------------------------------------
\* Collected groups are sets of listings with prices.
LEMMA CollectedPrices ==
    ASSUME NEW rows, MarketOK(rows), NEW row, NEW attempt
    PROVE  /\ Collect(rows, row, attempt) \in SUBSET DOMAIN rows
           /\ IsFiniteSet(Collect(rows, row, attempt))
           /\ \A i \in Collect(rows, row, attempt) : Price(rows)[i] \in Nat \ {0}
<1> DEFINE group == Collect(rows, row, attempt)
<1>1. group \in SUBSET DOMAIN rows
  BY DEF Collect
<1>2. \A i \in group : rows[i].price # NULL
  BY DEF Collect, IsBaseline, IsComparable
<1> HIDE DEF group
<1>3. \A i \in group : Price(rows)[i] \in Nat \ {0}
  BY <1>1, <1>2 DEF Price, MarketOK, RowOK
<1>4. IsFiniteSet(group)
  BY <1>1, FS_Subset DEF MarketOK
<1> QED
  BY <1>1, <1>3, <1>4 DEF group

\* A baseline listing is collected by every one of its own attempts.
LEMMA CollectsItself ==
    ASSUME NEW rows, MarketOK(rows), NEW t \in DOMAIN rows, IsBaseline(rows[t]), NEW a \in 1..4
    PROVE  t \in Collect(rows, rows[t], Attempts[a])
<1>1. rows[t].year \in Int
  BY DEF MarketOK, RowOK, IsBaseline, IsComparable
<1>2. Attempts[a].span \in {0, 1, 2}
  BY DEF Attempts, NEAR_YEAR_SPAN, FAR_YEAR_SPAN
<1>3. rows[t].year \in (rows[t].year - Attempts[a].span)..(rows[t].year + Attempts[a].span)
  BY <1>1, <1>2
<1> QED
  BY <1>3 DEF Collect

\* Leaving a baseline listing out of its peers is asking about it in a table without it.
LEMMA BasisWithoutItself ==
    ASSUME NEW rows, MarketOK(rows), NEW t \in DOMAIN rows, IsBaseline(rows[t]),
           NEW others, others = [u \in DOMAIN rows \ {t} |-> rows[u]]
    PROVE  BasisOf(others, rows[t], FALSE) = BasisOf(rows, rows[t], TRUE)
<1> DEFINE row == rows[t]
           yes == TRUE
           no == FALSE
<1>1. ASSUME NEW a \in 1..4
      PROVE  SamePrices(others, Peers(others, row, Attempts[a], no),
                        rows, Peers(rows, row, Attempts[a], yes))
  <2> DEFINE group == Collect(rows, row, Attempts[a])
  <2>1. /\ group \in SUBSET DOMAIN rows /\ IsFiniteSet(group) /\ t \in group
    BY CollectedPrices, CollectsItself
  <2>2. Peers(others, row, Attempts[a], no) = group \ {t}
    <3>1. Collect(others, row, Attempts[a]) = group \ {t}
      BY DEF Collect
    <3> QED
      BY <3>1 DEF Peers
  <2>3. Peers(rows, row, Attempts[a], yes) = RemoveOne(rows, group, row.price)
    BY DEF Peers
  <2> HIDE DEF group
  <2>4. LET left == RemoveOne(rows, group, row.price)
        IN /\ Cardinality(left) = Cardinality(group \ {t})
           /\ SortedBy(left, Price(rows)) = SortedBy(group \ {t}, Price(rows))
    BY <2>1, LeavesOneOut
  <2>5. SortedBy(group \ {t}, Price(others)) = SortedBy(group \ {t}, Price(rows))
    <3>1. \A i \in group \ {t} : Price(others)[i] = Price(rows)[i]
      BY <2>1 DEF Price
    <3>2. IsFiniteSet(group \ {t})
      BY <2>1, FS_RemoveElement
    <3> QED
      BY <3>1, <3>2, SortedAlike
  <2> QED
    BY <2>2, <2>3, <2>4, <2>5 DEF SamePrices
<1> HIDE DEF row, yes, no
<1>2. BasisOf(others, row, no) = BasisOf(rows, row, yes)
  BY <1>1, SameBasis
<1> QED
  BY <1>2 DEF row, yes, no

\* A listing never validates itself and nothing else is left out: the bulk pass finds the basis
\* and the sample of POST /estimates for the same vehicle (_base_price, estimate_for).
LEMMA BulkIsQuery == ListingsRead => BulkMatchesQuery
<1> SUFFICES ASSUME ListingsRead, NEW t \in Listings, IsComparable(Inputs[t])
    PROVE  LET row == Inputs[t]
               table == IF IsBaseline(row) THEN RestrictDomain(Inputs, LAMBDA u : u # t) ELSE Inputs
               bulk == Estimate(Inputs, row)
               query == EstimateFor(table, row)
           IN /\ bulk.basis = query.basis /\ bulk.sample = query.sample
              /\ KmFactor(table, row) = KmFactor(Inputs, row) => bulk.est = query.est
  BY DEF BulkMatchesQuery
<1> DEFINE row == Inputs[t]
           table == IF IsBaseline(row) THEN RestrictDomain(Inputs, LAMBDA u : u # t) ELSE Inputs
           base == BasisOf(Inputs, row, IsBaseline(row))
<1>1. MarketOK(Inputs) /\ t \in DOMAIN Inputs
  BY MarketRead DEF ListingsRead, Inputs, Listings
<1>2. BasisOf(table, row, FALSE) = base
  <2>3. IsBaseline(row) = TRUE \/ IsBaseline(row) = FALSE
    BY DEF IsBaseline, IsComparable
  <2>1. CASE IsBaseline(row) = TRUE
    <3> DEFINE others == [u \in DOMAIN Inputs \ {t} |-> Inputs[u]]
    <3>1. table = others
      BY <2>1 DEF RestrictDomain, Restrict
    <3> HIDE DEF others, table
    <3>2. BasisOf(others, row, FALSE) = BasisOf(Inputs, row, TRUE)
      BY <1>1, <2>1, BasisWithoutItself DEF others
    <3> QED
      BY <2>1, <3>1, <3>2
  <2>2. CASE IsBaseline(row) = FALSE
    BY <2>2
  <2> QED
    BY <2>1, <2>2, <2>3
<1>3. BasePrice(Inputs, row) = base
  BY DEF BasePrice
<1> HIDE DEF table, base, row
<1>4. Estimate(Inputs, row) = EstimateOn(row, base, Factors(Inputs, row))
  BY <1>3 DEF Estimate
<1>5. EstimateFor(table, row) = Single(base, Factors(table, row))
  BY <1>2 DEF EstimateFor
<1>6. /\ Estimate(Inputs, row).basis = EstimateFor(table, row).basis
      /\ Estimate(Inputs, row).sample = EstimateFor(table, row).sample
  BY <1>4, <1>5 DEF EstimateOn, Single, NoEstimate, Against, Judged
<1>7. ASSUME KmFactor(table, row) = KmFactor(Inputs, row)
      PROVE  Estimate(Inputs, row).est = EstimateFor(table, row).est
  <2>1. Factors(table, row) = Factors(Inputs, row)
    BY <1>7 DEF Factors
  <2> QED
    BY <1>4, <1>5, <2>1 DEF EstimateOn, Single, NoEstimate, Against, Judged
<1> QED
  BY <1>6, <1>7 DEF table, row

-----------------------------------------------------------------------------
\* Arithmetic of the factors and the score.
LEMMA DivMonotone ==
    ASSUME NEW a \in Int, NEW b \in Int, a <= b, NEW d \in Int, d > 0
    PROVE  a \div d \in Int /\ b \div d \in Int /\ a \div d <= b \div d
<1> DEFINE p == a \div d
           q == b \div d
<1>1. p \in Int /\ q \in Int
  OBVIOUS
<1>2. d * p <= a /\ b < d * q + d
  OBVIOUS
<1> HIDE DEF p, q
<1>3. SUFFICES ASSUME q + 1 <= p PROVE FALSE
  BY <1>1 DEF p, q
<1>4. d * (q + 1) <= d * p
  BY <1>1, <1>3
<1>5. d * (q + 1) = d * q + d
  BY <1>1
<1>6. d * q \in Int /\ d * p \in Int
  BY <1>1
<1> QED
  BY <1>2, <1>4, <1>5, <1>6

LEMMA TimesMonotone ==
    ASSUME NEW a \in Int, NEW b \in Int, a <= b, NEW c \in Nat
    PROVE  a * c \in Int /\ b * c \in Int /\ a * c <= b * c
<1>1. (b - a) * c >= 0
  OBVIOUS
<1>2. (b - a) * c = b * c - a * c
  OBVIOUS
<1>3. a * c \in Int /\ b * c \in Int
  OBVIOUS
<1> QED
  BY <1>1, <1>2, <1>3

FactorsOK(factors) == factors.km \in 920..1040 /\ factors.insurance \in 988..1012

LEMMA ScaledMonotone ==
    ASSUME NEW factors, FactorsOK(factors), NEW a \in Int, NEW b \in Int, a <= b
    PROVE  /\ Scaled(a, factors) \in Int /\ Scaled(b, factors) \in Int
           /\ Scaled(a, factors) <= Scaled(b, factors)
           /\ a >= 2 => Scaled(a, factors) > 0
<1> DEFINE km == factors.km
           ins == factors.insurance
           s(x) == (x * km) \div 20
<1>1. km \in Nat /\ ins \in Nat /\ km >= 920 /\ ins >= 988
  BY DEF FactorsOK
<1> HIDE DEF km, ins
<1>2. a * km \in Int /\ b * km \in Int /\ a * km <= b * km
  BY <1>1, TimesMonotone
<1>3. s(a) \in Int /\ s(b) \in Int /\ s(a) <= s(b)
  BY <1>2
<1>4. ASSUME a >= 2 PROVE s(a) >= 92
  <2>1. 2 * km <= a * km
    BY <1>1, <1>4, TimesMonotone
  <2> QED
    BY <1>1, <1>2, <2>1
<1> HIDE DEF s
<1>5. s(a) * ins \in Int /\ s(b) * ins \in Int /\ s(a) * ins <= s(b) * ins
  BY <1>1, <1>3, TimesMonotone
<1>6. ASSUME a >= 2 PROVE s(a) * ins >= 1000
  <2>1. 92 * ins <= s(a) * ins
    BY <1>1, <1>3, <1>4, <1>6, TimesMonotone
  <2> QED
    BY <1>1, <1>5, <2>1
<1>7. Scaled(a, factors) = (s(a) * ins) \div 1000 /\ Scaled(b, factors) = (s(b) * ins) \div 1000
  BY DEF Scaled, s, km, ins, Thousand
<1> QED
  BY <1>5, <1>6, <1>7

\* The middle of values in order is among them.
LEMMA MedianOf ==
    ASSUME NEW s, NEW n \in Nat, n >= 2, Len(s) = n, NEW low \in Int,
           \A k \in 1..n : s[k] \in Int /\ low <= s[k]
    PROVE  Median2(s) \in Int /\ 2 * low <= Median2(s)
<1>1. (n + 1) \div 2 \in 1..n /\ (n + 2) \div 2 \in 1..n
  OBVIOUS
<1> QED
  BY <1>1 DEF Median2

Kilometres == Nat \cup {NULL}

LEMMA KmFactorRange ==
    ASSUME NEW km \in Kilometres, NEW expected2 \in Kilometres
    PROVE  KmFactorOf(km, expected2) \in 920..1040
<1> USE DEF Kilometres
<1>1. CASE km = NULL \/ expected2 \in {NULL, 0}
  BY <1>1 DEF KmFactorOf, Thousand
<1>2. CASE ~(km = NULL \/ expected2 \in {NULL, 0})
  <2> DEFINE x == (80 * (2 * km - expected2)) \div expected2
  <2>1. km \in Int /\ expected2 \in Int /\ expected2 > 0
    BY <1>2
  <2>2. 80 * (2 * km - expected2) \in Int
    BY <2>1
  <2>3. x \in Int
    <3>1. \A y \in Int : y \div expected2 \in Int
      BY <2>1
    <3> QED
      BY <2>2, <3>1
  <2>4. KmFactorOf(km, expected2) = 1000 - Clamp(x, -40, 80)
    BY <1>2 DEF KmFactorOf, Thousand
  <2> HIDE DEF x
  <2> QED
    BY <2>3, <2>4 DEF Clamp
<1> QED
  BY <1>1, <1>2

LEMMA ExpectedKmRange ==
    ASSUME NEW rows, MarketOK(rows), NEW category, NEW year
    PROVE  ExpectedKm2(rows, category, year) \in Nat \cup {NULL}
<1> DEFINE peers == {i \in DOMAIN rows : /\ rows[i].category = category
                                         /\ rows[i].year = year
                                         /\ rows[i].km # NULL}
           value == [i \in peers |-> rows[i].km]
           n == Cardinality(peers)
           s == SortedBy(peers, value)
<1>1. peers \in SUBSET DOMAIN rows /\ \A i \in peers : value[i] \in Nat
  BY DEF MarketOK, RowOK
<1>2. ExpectedKm2(rows, category, year) = IF n < MIN_COMPARABLES THEN NULL ELSE Median2(s)
  BY DEF ExpectedKm2
<1> HIDE DEF peers, value
<1>3. Numbered(peers, value)
  BY <1>1, FS_Subset DEF MarketOK, Numbered
<1>4. n \in Nat /\ Len(s) = n /\ \A k \in 1..n : s[k] \in Nat
  BY <1>1, <1>3, SortedValues
<1> HIDE DEF n, s
<1>5. n >= 2 => Median2(s) \in Int /\ Median2(s) >= 0
  <2>1. 0 \in Int /\ \A k \in 1..n : s[k] \in Int /\ 0 <= s[k]
    BY <1>4
  <2> QED
    BY <1>4, <2>1, MedianOf
<1> QED
  BY <1>2, <1>4, <1>5, ComparablesAssumption

\* The factors of a row, whether of the table or asked about.
LEMMA FactorsRange ==
    ASSUME NEW rows, MarketOK(rows), NEW row, row.km \in Nat \cup {NULL},
           row.insurance \in (0..MAX_INSURANCE_MONTHS) \cup {NULL}
    PROVE  FactorsOK(Factors(rows, row))
<1>1. KmFactor(rows, row) \in 920..1040
  <2> DEFINE expected2 == ExpectedKm2(rows, row.category, row.year)
             km == row.km
  <2>1. expected2 \in Kilometres /\ km \in Kilometres
    BY ExpectedKmRange DEF Kilometres
  <2>2. KmFactor(rows, row) = IF row.year = NULL THEN 1000 ELSE KmFactorOf(km, expected2)
    BY DEF KmFactor, Thousand
  <2> HIDE DEF expected2, km
  <2>3. KmFactorOf(km, expected2) \in 920..1040
    BY <2>1, KmFactorRange
  <2> QED
    BY <2>2, <2>3
<1>2. InsuranceFactor(row.insurance) \in 988..1012
  BY DEF InsuranceFactor, Thousand, MAX_INSURANCE_MONTHS
<1> QED
  BY <1>1, <1>2 DEF FactorsOK, Factors

-----------------------------------------------------------------------------
\* The prices a basis stands on: positive numbers in order, enough of them.
PricesOK(prices) ==
  /\ Len(prices) \in Nat /\ Len(prices) >= 2
  /\ \A k \in 1..Len(prices) : prices[k] \in Nat \ {0}
  /\ \A k, l \in 1..Len(prices) : k <= l => prices[k] <= prices[l]

LEMMA PeersPriced ==
    ASSUME NEW rows, MarketOK(rows), NEW row, NEW leaveOut, NEW a \in 1..4
    PROVE  LET peers == Peers(rows, row, Attempts[a], leaveOut)
           IN /\ IsFiniteSet(peers)
              /\ \A i \in peers : Price(rows)[i] \in Nat \ {0}
<1> DEFINE group == Collect(rows, row, Attempts[a])
           peers == Peers(rows, row, Attempts[a], leaveOut)
<1>1. peers \in SUBSET group
  BY DEF Peers, RemoveOne
<1>2. IsFiniteSet(group) /\ \A i \in group : Price(rows)[i] \in Nat \ {0}
  BY CollectedPrices
<1> HIDE DEF group, peers
<1>3. IsFiniteSet(peers) /\ \A i \in peers : Price(rows)[i] \in Nat \ {0}
  BY <1>1, <1>2, FS_Subset
<1> QED
  BY <1>3 DEF peers

LEMMA BasisStands ==
    ASSUME NEW rows, MarketOK(rows), NEW row, NEW leaveOut, NEW base,
           base = BasisOf(rows, row, leaveOut), base # NoBasis
    PROVE  PricesOK(base.prices)
<1> DEFINE a == Min(FoundIn(rows, row, leaveOut))
           peers == Peers(rows, row, Attempts[a], leaveOut)
           s == SortedBy(peers, Price(rows))
<1>1. a \in FoundIn(rows, row, leaveOut) /\ base = Based(rows, row, Attempts[a], leaveOut)
  BY BasisIs
<1>2. a \in 1..4 /\ Cardinality(peers) >= MIN_COMPARABLES
  BY <1>1 DEF FoundIn
<1>3. base.prices = s
  BY <1>1 DEF Based, Price
<1> HIDE DEF a
<1>4. IsFiniteSet(peers) /\ \A i \in peers : Price(rows)[i] \in Nat \ {0}
  BY <1>2, PeersPriced
<1> HIDE DEF peers
<1>5. Numbered(peers, Price(rows))
  BY <1>4 DEF Numbered
<1>6. /\ Cardinality(peers) \in Nat /\ Len(s) = Cardinality(peers)
      /\ \A k \in 1..Cardinality(peers) : \E i \in peers : s[k] = Price(rows)[i]
      /\ \A k, l \in 1..Cardinality(peers) : k <= l => s[k] <= s[l]
  BY <1>5, SortedValues
<1> HIDE DEF s
<1>7. Len(s) >= 2
  BY <1>2, <1>6, ComparablesAssumption
<1>8. \A k \in 1..Len(s) : s[k] \in Nat \ {0}
  BY <1>4, <1>6
<1> QED
  BY <1>3, <1>6, <1>7, <1>8 DEF PricesOK

LEMMA EstimatePositive ==
    ASSUME NEW prices, PricesOK(prices), NEW factors, FactorsOK(factors)
    PROVE  /\ Median2(prices) \in Int /\ Median2(prices) >= 2
           /\ Scaled(Median2(prices), factors) \in Int
           /\ Scaled(Median2(prices), factors) > 0
<1>1. Median2(prices) \in Int /\ 2 * 1 <= Median2(prices)
  <2>1. 1 \in Int /\ \A k \in 1..Len(prices) : prices[k] \in Int /\ 1 <= prices[k]
    BY DEF PricesOK
  <2> QED
    BY <2>1, MedianOf DEF PricesOK
<1> HIDE DEF Median2
<1> QED
  BY <1>1, ScaledMonotone

LEMMA ScoreAntitone ==
    ASSUME NEW diff1 \in Int, NEW diff2 \in Int, diff2 <= diff1, NEW km \in Int,
           NEW body \in DOMAIN BodyFactors \cup {NULL}
    PROVE  DealScore(diff2, km, body) >= DealScore(diff1, km, body)
<1> DEFINE bodyTerm == IF body = NULL THEN 0 ELSE 9 * (BodyFactors[body] - 92)
           rest == (12 * (km - 1000)) \div 10 + bodyTerm
           raw(diff) == 720 - diff + (12 * (km - 1000)) \div 10 + bodyTerm
<1>1. bodyTerm \in Int
  BY IngestAssumption
<1> HIDE DEF bodyTerm
<1>2. raw(diff1) \in Int /\ raw(diff2) \in Int /\ raw(diff1) <= raw(diff2)
  BY <1>1
<1>3. \A diff : DealScore(diff, km, body) = RoundDiv(Clamp(raw(diff), 50, 990), 10)
  BY DEF DealScore, bodyTerm, Thousand
<1> HIDE DEF raw
<1>4. /\ Clamp(raw(diff1), 50, 990) \in Int /\ Clamp(raw(diff2), 50, 990) \in Int
      /\ Clamp(raw(diff1), 50, 990) <= Clamp(raw(diff2), 50, 990)
  BY <1>2 DEF Clamp
<1>5. \A a, b \in Int : a <= b => RoundDiv(a, 10) <= RoundDiv(b, 10)
  BY DEF RoundDiv
<1> QED
  BY <1>3, <1>4, <1>5

\* Only the price of t differs, and it has one before and after.
Repriced(rows, t, after) ==
  /\ DOMAIN after = DOMAIN rows /\ t \in DOMAIN rows
  /\ \A u \in DOMAIN rows :
        /\ u # t => after[u] = rows[u]
        /\ after[u].category = rows[u].category /\ after[u].trim = rows[u].trim
        /\ after[u].model = rows[u].model /\ after[u].year = rows[u].year
        /\ after[u].km = rows[u].km /\ after[u].insurance = rows[u].insurance
        /\ after[u].body = rows[u].body /\ after[u].source = rows[u].source
  /\ rows[t].price # NULL /\ after[t].price # NULL

LEMMA RepricedFactors ==
    ASSUME NEW rows, NEW t, NEW after, Repriced(rows, t, after)
    PROVE  Factors(after, after[t]) = Factors(rows, rows[t])
<1>1. \A category, year : ExpectedKm2(after, category, year) = ExpectedKm2(rows, category, year)
  <2> SUFFICES ASSUME NEW category, NEW year
      PROVE  ExpectedKm2(after, category, year) = ExpectedKm2(rows, category, year)
    OBVIOUS
  <2> DEFINE peers(r) == {i \in DOMAIN r : /\ r[i].category = category
                                           /\ r[i].year = year
                                           /\ r[i].km # NULL}
             value(r) == [i \in peers(r) |-> r[i].km]
  <2>1. peers(after) = peers(rows)
    BY DEF Repriced
  <2>2. \A i \in peers(rows) : after[i].km = rows[i].km
    BY DEF Repriced
  <2>3. value(after) = value(rows)
    BY <2>1, <2>2
  <2>4. \A r : ExpectedKm2(r, category, year) =
               IF Cardinality(peers(r)) < MIN_COMPARABLES THEN NULL
               ELSE Median2(SortedBy(peers(r), value(r)))
    BY DEF ExpectedKm2
  <2> HIDE DEF peers, value
  <2> QED
    BY <2>1, <2>3, <2>4
<1>2. /\ after[t].category = rows[t].category /\ after[t].year = rows[t].year
      /\ after[t].km = rows[t].km /\ after[t].insurance = rows[t].insurance
  BY DEF Repriced
<1> QED
  BY <1>1, <1>2 DEF Factors, KmFactor

LEMMA RepricedGroups ==
    ASSUME NEW rows, NEW t, NEW after, Repriced(rows, t, after)
    PROVE  /\ \A u \in DOMAIN rows : /\ IsComparable(after[u]) = IsComparable(rows[u])
                                     /\ IsBaseline(after[u]) = IsBaseline(rows[u])
           /\ \A a \in 1..4 : Collect(after, after[t], Attempts[a]) = Collect(rows, rows[t], Attempts[a])
<1>1. \A u \in DOMAIN rows : (after[u].price = NULL) = (rows[u].price = NULL)
  BY DEF Repriced
<1>2. \A u \in DOMAIN rows : /\ IsComparable(after[u]) = IsComparable(rows[u])
                             /\ IsBaseline(after[u]) = IsBaseline(rows[u])
  BY <1>1 DEF Repriced, IsBaseline, IsComparable
<1>3. ASSUME NEW a \in 1..4
      PROVE  Collect(after, after[t], Attempts[a]) = Collect(rows, rows[t], Attempts[a])
  <2> DEFINE by == Attempts[a].by
             span == Attempts[a].span
             near == (rows[t].year - span)..(rows[t].year + span)
  <2>1. by \in {"trim", "model"}
    BY DEF Attempts
  <2> HIDE DEF by, span
  <2>2. \A u \in DOMAIN rows : after[u][by] = rows[u][by]
    BY <2>1 DEF Repriced
  <2>3. after[t].year = rows[t].year /\ after[t].category = rows[t].category /\ t \in DOMAIN rows
    BY DEF Repriced
  <2>4. Collect(rows, rows[t], Attempts[a]) =
          {i \in DOMAIN rows : /\ IsBaseline(rows[i]) /\ rows[i].category = rows[t].category
                               /\ rows[i][by] = rows[t][by] /\ rows[i].year \in near}
    BY DEF Collect, by, span
  <2>5. Collect(after, after[t], Attempts[a]) =
          {i \in DOMAIN after : /\ IsBaseline(after[i]) /\ after[i].category = rows[t].category
                                /\ after[i][by] = rows[t][by] /\ after[i].year \in near}
    BY <2>2, <2>3 DEF Collect, by, span
  <2> HIDE DEF near
  <2>6. DOMAIN after = DOMAIN rows /\ \A i \in DOMAIN rows : /\ after[i].category = rows[i].category
                                                             /\ after[i].year = rows[i].year
    BY DEF Repriced
  <2> QED
    BY <1>2, <2>2, <2>4, <2>5, <2>6
<1> QED
  BY <1>2, <1>3

\* A listing's own price is no part of its basis.
LEMMA RepricedBasis ==
    ASSUME NEW rows, MarketOK(rows), NEW t, NEW after, Repriced(rows, t, after)
    PROVE  BasePrice(after, after[t]) = BasePrice(rows, rows[t])
<1> DEFINE own == IsBaseline(rows[t])
<1>1. /\ t \in DOMAIN rows /\ DOMAIN after = DOMAIN rows
      /\ IsComparable(after[t]) = IsComparable(rows[t]) /\ IsBaseline(after[t]) = own
  BY RepricedGroups DEF Repriced
<1>2. ASSUME NEW a \in 1..4
      PROVE  SamePrices(after, Peers(after, after[t], Attempts[a], own),
                        rows, Peers(rows, rows[t], Attempts[a], own))
  <2> DEFINE group == Collect(rows, rows[t], Attempts[a])
  <2>1. Collect(after, after[t], Attempts[a]) = group
    BY <1>2, RepricedGroups
  <2>2. group \in SUBSET DOMAIN rows /\ IsFiniteSet(group)
    BY CollectedPrices
  <2>3. \A i \in group \ {t} : Price(after)[i] = Price(rows)[i]
    BY <1>1, <2>2 DEF Price, Repriced
  <2>4. IsFiniteSet(group \ {t})
    <3> HIDE DEF group
    <3> QED
      BY <2>2, FS_RemoveElement
  <2>5. SortedBy(group \ {t}, Price(after)) = SortedBy(group \ {t}, Price(rows))
    <3> HIDE DEF group
    <3> QED
      BY <2>3, <2>4, SortedAlike
  <2>6. CASE own
    <3>1. t \in group
      BY <1>1, <2>6, CollectsItself
    <3>2. /\ Peers(after, after[t], Attempts[a], own) = RemoveOne(after, group, after[t].price)
          /\ Peers(rows, rows[t], Attempts[a], own) = RemoveOne(rows, group, rows[t].price)
      BY <2>1, <2>6 DEF Peers
    <3> HIDE DEF group, own
    <3>3. LET left == RemoveOne(rows, group, rows[t].price)
          IN /\ Cardinality(left) = Cardinality(group \ {t})
             /\ SortedBy(left, Price(rows)) = SortedBy(group \ {t}, Price(rows))
      BY <2>2, <3>1, LeavesOneOut
    <3>4. LET left == RemoveOne(after, group, after[t].price)
          IN /\ Cardinality(left) = Cardinality(group \ {t})
             /\ SortedBy(left, Price(after)) = SortedBy(group \ {t}, Price(after))
      BY <1>1, <2>2, <3>1, LeavesOneOut
    <3> QED
      BY <2>5, <3>2, <3>3, <3>4 DEF SamePrices
  <2>7. CASE ~own
    <3>1. t \notin group
      BY <2>7 DEF Collect
    <3>2. Peers(after, after[t], Attempts[a], own) = group /\ Peers(rows, rows[t], Attempts[a], own) = group
      BY <2>1, <2>7 DEF Peers
    <3> HIDE DEF group, own
    <3>3. group \ {t} = group
      BY <3>1
    <3> QED
      BY <2>5, <3>2, <3>3 DEF SamePrices
  <2> QED
    BY <2>6, <2>7
<1> HIDE DEF own
<1>3. BasisOf(after, after[t], own) = BasisOf(rows, rows[t], own)
  BY <1>2, SameBasis
<1> QED
  BY <1>1, <1>3 DEF BasePrice, own

\* Lowering one price leaves the estimate alone and the score no lower.
LEMMA LowerScoresNoWorse ==
    ASSUME NEW rows, MarketOK(rows), NEW t, NEW after, Repriced(rows, t, after),
           after[t].price \in Int, after[t].price <= rows[t].price
    PROVE  LET old == Estimate(rows, rows[t])
               new == Estimate(after, after[t])
           IN /\ new.est = old.est
              /\ NULL \notin {old.score, new.score} => new.score >= old.score
<1> DEFINE base == BasePrice(rows, rows[t])
           factors == Factors(rows, rows[t])
           est == Scaled(Median2(base.prices), factors)
           diff(price) == ((100 * price - est) * Thousand) \div est
<1>1. /\ Estimate(rows, rows[t]) = EstimateOn(rows[t], base, factors)
      /\ Estimate(after, after[t]) = EstimateOn(after[t], base, factors)
  BY RepricedFactors, RepricedBasis DEF Estimate
<1>2. RowOK(rows[t]) /\ rows[t].price \in Nat \ {0} /\ after[t].body = rows[t].body
  BY DEF MarketOK, Repriced, RowOK
<1>3. FactorsOK(factors)
  BY <1>2, FactorsRange DEF RowOK
<1>4. CASE base = NoBasis
  BY <1>1, <1>4 DEF EstimateOn, NoEstimate
<1>5. CASE base # NoBasis
  <2>1. PricesOK(base.prices)
    BY <1>5, BasisStands DEF BasePrice
  <2>2. est \in Int /\ est > 0
    <3> HIDE DEF base, factors
    <3> QED
      BY <1>3, <2>1, EstimatePositive
  <2>3. /\ Estimate(rows, rows[t]) = Judged(rows[t], base, factors, est, diff(rows[t].price))
        /\ Estimate(after, after[t]) = Judged(after[t], base, factors, est, diff(after[t].price))
    BY <1>1, <1>5 DEF EstimateOn, Against
  <2>4. factors.km \in Int
    BY <1>3 DEF FactorsOK
  <2> HIDE DEF base, factors, est
  <2>5. /\ diff(rows[t].price) \in Int /\ diff(after[t].price) \in Int
        /\ diff(after[t].price) <= diff(rows[t].price)
    <3>1. /\ (100 * rows[t].price - est) * Thousand \in Int
          /\ (100 * after[t].price - est) * Thousand \in Int
          /\ (100 * after[t].price - est) * Thousand <= (100 * rows[t].price - est) * Thousand
      BY <1>2, <2>2 DEF Thousand
    <3> QED
      BY <2>2, <3>1, DivMonotone
  <2> HIDE DEF diff
  <2>6. DealScore(diff(after[t].price), factors.km, rows[t].body)
          >= DealScore(diff(rows[t].price), factors.km, rows[t].body)
    BY <1>2, <2>4, <2>5, ScoreAntitone DEF RowOK
  <2> QED
    BY <1>2, <2>3, <2>6 DEF Judged
<1> QED
  BY <1>4, <1>5

\* A seller who asks less never gets a worse score (_estimate, _deal_score).
LEMMA CheaperIsNoWorse == ListingsRead => CheaperScoresNoWorse
<1> SUFFICES ASSUME ListingsRead, NEW t \in Listings, Inputs[t].price # NULL
    PROVE  LET lowered == [Inputs EXCEPT ![t].price = (9 * Inputs[t].price) \div 10]
               old == Estimate(Inputs, Inputs[t])
               new == Estimate(lowered, lowered[t])
           IN /\ new.est = old.est
              /\ NULL \notin {old.score, new.score} => new.score >= old.score
  BY DEF CheaperScoresNoWorse
<1> DEFINE rows == Inputs
           less == (9 * Inputs[t].price) \div 10
           lowered == [Inputs EXCEPT ![t].price = less]
<1>1. MarketOK(rows) /\ t \in DOMAIN rows
  BY MarketRead DEF ListingsRead, Inputs, Listings
<1>2. rows[t].price \in Nat \ {0}
  BY <1>1 DEF MarketOK, RowOK
<1>3. less \in Int /\ less <= rows[t].price /\ less # NULL
  BY <1>2, IngestAssumption
<1>4. lowered = [rows EXCEPT ![t] = [rows[t] EXCEPT !.price = less]]
  OBVIOUS
<1> HIDE DEF less, rows, lowered
<1>5. /\ DOMAIN lowered = DOMAIN rows
      /\ \A u \in DOMAIN rows : u # t => lowered[u] = rows[u]
      /\ lowered[t] = [rows[t] EXCEPT !.price = less]
  BY <1>1, <1>4
<1>6. /\ lowered[t].price = less
      /\ \A f \in DOMAIN rows[t] : f # "price" => lowered[t][f] = rows[t][f]
  BY <1>1, <1>5 DEF MarketOK, RowOK
<1>7. {"category", "trim", "model", "year", "km", "price", "insurance", "body", "source"}
        \subseteq DOMAIN rows[t]
  BY <1>1 DEF MarketOK, RowOK
<1>8. /\ lowered[t].category = rows[t].category /\ lowered[t].trim = rows[t].trim
      /\ lowered[t].model = rows[t].model /\ lowered[t].year = rows[t].year
      /\ lowered[t].km = rows[t].km /\ lowered[t].insurance = rows[t].insurance
      /\ lowered[t].body = rows[t].body /\ lowered[t].source = rows[t].source
  BY <1>6, <1>7
<1>9. Repriced(rows, t, lowered)
  BY <1>1, <1>2, <1>3, <1>5, <1>6, <1>8 DEF Repriced, rows
<1> QED
  BY <1>1, <1>3, <1>6, <1>9, LowerScoresNoWorse DEF rows, lowered, less

-----------------------------------------------------------------------------
\* The quartiles, extrapolated when the comparables are few, lie around the median.
LEMMA QuartilesAroundMedian ==
    ASSUME NEW s, PricesOK(s)
    PROVE  /\ Quantile(s, 1, 4) \in Int /\ Quantile(s, 3, 4) \in Int
           /\ Quantile(s, 1, 4) <= 2 * Median2(s)
           /\ 2 * Median2(s) <= Quantile(s, 3, 4)
<1> DEFINE n == Len(s)
           m1 == (n + 1) \div 2
           m2 == (n + 2) \div 2
           q(j, delta) == s[j] * (4 - delta) + s[j + 1] * delta
<1>1. n \in Nat /\ n >= 2
  BY DEF PricesOK
<1>2. \A k \in 1..n : s[k] \in Int
  BY DEF PricesOK
<1>3. \A k, l \in 1..n : k <= l => s[k] <= s[l]
  BY DEF PricesOK
<1>4. Median2(s) = s[m1] + s[m2]
  BY DEF Median2
<1>5. ASSUME NEW k \in {1, 3}
      PROVE  LET j == Clamp((k * (n + 1)) \div 4, 1, n - 1)
             IN Quantile(s, k, 4) = q(j, k * (n + 1) - j * 4)
  BY DEF Quantile
<1> HIDE DEF n
<1>6. m1 \in 1..n /\ m2 \in 1..n /\ m1 <= m2
  BY <1>1
<1>7. s[m1] \in Int /\ s[m2] \in Int /\ s[m1] <= s[m2]
  BY <1>2, <1>3, <1>6
<1>8. Quantile(s, 1, 4) \in Int /\ Quantile(s, 1, 4) <= 2 * Median2(s)
  <2> DEFINE j == Clamp((1 * (n + 1)) \div 4, 1, n - 1)
             delta == 1 * (n + 1) - j * 4
  <2>1. Quantile(s, 1, 4) = q(j, delta)
    BY <1>5
  <2>2. CASE n = 2
    <3>1. j = 1 /\ delta = -1 /\ m1 = 1 /\ m2 = 2
      BY <2>2 DEF Clamp
    <3>2. q(1, -1) = 5 * s[1] - s[2]
      BY <1>2, <2>2
    <3> QED
      BY <1>4, <1>7, <2>1, <3>1, <3>2
  <2>3. CASE n > 2
    <3>1. j \in 1..n /\ j + 1 \in 1..n /\ j + 1 <= m1 /\ delta \in 0..3
      BY <1>1, <2>3 DEF Clamp
    <3> HIDE DEF j, delta, m1, m2
    <3>2. s[j] \in Int /\ s[j + 1] \in Int /\ s[j] <= s[j + 1] /\ s[j + 1] <= s[m1]
      BY <1>2, <1>3, <1>6, <3>1
    <3>3. q(j, delta) \in Int /\ q(j, delta) <= 4 * s[j + 1]
      <4> DEFINE x == s[j]
                 y == s[j + 1]
      <4>1. delta = 0 \/ delta = 1 \/ delta = 2 \/ delta = 3
        BY <3>1
      <4>2. x \in Int /\ y \in Int /\ x <= y
        BY <3>2
      <4> HIDE DEF x, y
      <4>3. x * (4 - delta) + y * delta \in Int /\ x * (4 - delta) + y * delta <= 4 * y
        BY <4>1, <4>2
      <4> QED
        BY <4>3 DEF x, y
    <3> HIDE DEF q
    <3> QED
      BY <1>4, <1>7, <2>1, <3>2, <3>3
  <2> QED
    BY <1>1, <2>2, <2>3
<1>9. Quantile(s, 3, 4) \in Int /\ 2 * Median2(s) <= Quantile(s, 3, 4)
  <2> DEFINE j == Clamp((3 * (n + 1)) \div 4, 1, n - 1)
             delta == 3 * (n + 1) - j * 4
  <2>1. Quantile(s, 3, 4) = q(j, delta)
    BY <1>5
  <2>2. CASE n = 2
    <3>1. j = 1 /\ delta = 5 /\ m1 = 1 /\ m2 = 2
      BY <2>2 DEF Clamp
    <3>2. q(1, 5) = 5 * s[2] - s[1]
      BY <1>2, <2>2
    <3> QED
      BY <1>4, <1>7, <2>1, <3>1, <3>2
  <2>3. CASE n = 3
    <3>1. j = 2 /\ delta = 4 /\ m1 = 2 /\ m2 = 2
      BY <2>3 DEF Clamp
    <3>2. q(2, 4) = 4 * s[3] /\ s[2] \in Int /\ s[3] \in Int /\ s[2] <= s[3]
      BY <1>2, <1>3, <2>3
    <3> QED
      BY <1>4, <2>1, <3>1, <3>2
  <2>4. CASE n > 3
    <3>1. j \in 1..n /\ j + 1 \in 1..n /\ m2 <= j /\ delta \in 0..3
      BY <1>1, <2>4 DEF Clamp
    <3> HIDE DEF j, delta, m1, m2
    <3>2. s[j] \in Int /\ s[j + 1] \in Int /\ s[j] <= s[j + 1] /\ s[m2] <= s[j]
      BY <1>2, <1>3, <1>6, <3>1
    <3>3. q(j, delta) \in Int /\ 4 * s[j] <= q(j, delta)
      <4> DEFINE x == s[j]
                 y == s[j + 1]
      <4>1. delta = 0 \/ delta = 1 \/ delta = 2 \/ delta = 3
        BY <3>1
      <4>2. x \in Int /\ y \in Int /\ x <= y
        BY <3>2
      <4> HIDE DEF x, y
      <4>3. x * (4 - delta) + y * delta \in Int /\ 4 * x <= x * (4 - delta) + y * delta
        BY <4>1, <4>2
      <4> QED
        BY <4>3 DEF x, y
    <3> HIDE DEF q
    <3> QED
      BY <1>4, <1>7, <2>1, <3>2, <3>3
  <2> QED
    BY <1>1, <2>2, <2>3, <2>4
<1> QED
  BY <1>8, <1>9

\* The edges of the band, scaled as the estimate is, lie around the estimate.
LEMMA EdgesAroundEstimate ==
    ASSUME NEW prices, PricesOK(prices), NEW factors, FactorsOK(factors)
    PROVE  /\ BandEdge(prices, 1, factors) <= Scaled(Median2(prices), factors)
           /\ Scaled(Median2(prices), factors) <= BandEdge(prices, 3, factors)
<1> DEFINE low2 == Quantile(prices, 1, 4) \div 2
           high2 == Quantile(prices, 3, 4) \div 2
           median2 == Median2(prices)
<1>1. /\ Quantile(prices, 1, 4) \in Int /\ Quantile(prices, 3, 4) \in Int
      /\ Quantile(prices, 1, 4) <= 2 * median2 /\ 2 * median2 <= Quantile(prices, 3, 4)
  BY QuartilesAroundMedian
<1>2. median2 \in Int
  BY EstimatePositive
<1> HIDE DEF median2
<1>3. low2 \in Int /\ high2 \in Int /\ low2 <= median2 /\ median2 <= high2
  BY <1>1, <1>2
<1> HIDE DEF low2, high2
<1>4. /\ Scaled(low2, factors) <= Scaled(median2, factors)
      /\ Scaled(median2, factors) <= Scaled(high2, factors)
  BY <1>2, <1>3, ScaledMonotone
<1> QED
  BY <1>4 DEF BandEdge, low2, high2, median2

\* An answered estimate lies in its own band (_single, EstimateService.estimate).
LEMMA AnswersAreBanded ==
    ASSUME NEW rows, MarketOK(rows), NEW query, NEW asking,
           query.km \in Kilometres, query.insurance \in (0..MAX_INSURANCE_MONTHS) \cup {NULL},
           NEW answer, answer = Answered(EstimateFor(rows, query), asking), answer.status = 200
    PROVE  answer.low <= answer.est /\ answer.est <= answer.high
<1> DEFINE whole == FALSE
           base == BasisOf(rows, query, whole)
           factors == Factors(rows, query)
           est == Scaled(Median2(base.prices), factors)
           low == BandEdge(base.prices, 1, factors)
           high == BandEdge(base.prices, 3, factors)
           made == Single(base, factors)
<1>1. FactorsOK(factors)
  BY FactorsRange DEF Kilometres
<1>2. answer = Answered(made, asking)
  BY DEF EstimateFor
<1> HIDE DEF whole
<1>3. base # NoBasis
  <2>1. ASSUME made.est = NULL PROVE FALSE
    <3> HIDE DEF made
    <3>1. answer = [status |-> 422, reason |-> "no comparables"]
      BY <1>2, <2>1 DEF Answered
    <3>2. [status |-> 422, reason |-> "no comparables"].status = 422
      OBVIOUS
    <3>3. answer.status = 422
      BY <3>1, <3>2, Zenon
    <3> QED
      BY <3>3
  <2> HIDE DEF base, factors
  <2> QED
    BY <2>1 DEF Single
<1>4. made.est = est /\ made.low = low /\ made.high = high
  BY <1>3 DEF Single
<1>5. PricesOK(base.prices)
  BY <1>3, BasisStands
<1> HIDE DEF base, factors
<1>6. low <= est /\ est <= high /\ est \in Int
  BY <1>1, <1>5, EdgesAroundEstimate, EstimatePositive
<1> HIDE DEF made, est, low, high
<1>7. est # NULL
  BY <1>6, IngestAssumption
<1>8. answer = [status |-> 200, est |-> est, basis |-> made.basis,
                low |-> IF RoundDiv(low, 100) = 0 THEN est ELSE low,
                high |-> IF RoundDiv(high, 100) = 0 THEN est ELSE high,
                diff |-> IF asking = NULL THEN NULL
                         ELSE ((100 * asking - est) * Thousand) \div est]
  <2> DEFINE orEst(edge) == IF RoundDiv(edge, 100) = 0 THEN made.est ELSE edge
  <2>1. answer = IF made.est = NULL THEN [status |-> 422, reason |-> "no comparables"]
                 ELSE [status |-> 200, est |-> made.est, basis |-> made.basis,
                       low |-> orEst(made.low), high |-> orEst(made.high),
                       diff |-> IF asking = NULL THEN NULL
                                ELSE ((100 * asking - made.est) * Thousand) \div made.est]
    BY <1>2 DEF Answered
  <2>2. made.est # NULL
    BY <1>4, <1>7
  <2> QED
    BY <1>4, <2>1, <2>2
<1>9. /\ answer.est = est
      /\ answer.low = IF RoundDiv(low, 100) = 0 THEN est ELSE low
      /\ answer.high = IF RoundDiv(high, 100) = 0 THEN est ELSE high
  BY <1>8
<1> QED
  BY <1>6, <1>9

LEMMA BandIsHeld == ListingsRead => BandHoldsEstimate
<1> SUFFICES ASSUME ListingsRead, NEW t \in Listings
    PROVE  LET row == Inputs[t]
               entries == {[category |-> k[1], trim |-> k[2], model |-> db.catalog[k].model]
                             : k \in DOMAIN db.catalog}
               request == [category |-> row.category, trim |-> row.trim, year |-> row.year,
                           km |-> row.km, insurance |-> row.insurance, asking |-> row.price]
               answer == EstimateRequest(Inputs, entries, request)
           IN answer.status = 200 => answer.low <= answer.est /\ answer.est <= answer.high
  BY DEF BandHoldsEstimate
<1> DEFINE row == Inputs[t]
           entries == {[category |-> k[1], trim |-> k[2], model |-> db.catalog[k].model]
                         : k \in DOMAIN db.catalog}
           request == [category |-> row.category, trim |-> row.trim, year |-> row.year,
                       km |-> row.km, insurance |-> row.insurance, asking |-> row.price]
           answer == EstimateRequest(Inputs, entries, request)
<1>1. MarketOK(Inputs) /\ t \in DOMAIN Inputs
  BY MarketRead DEF ListingsRead, Inputs, Listings
<1>2. row.km \in Kilometres /\ row.insurance \in (0..MAX_INSURANCE_MONTHS) \cup {NULL}
  BY <1>1 DEF MarketOK, RowOK, Kilometres
<1>3. /\ request.km = row.km /\ request.insurance = row.insurance
      /\ "km" \in DOMAIN request /\ "insurance" \in DOMAIN request
  OBVIOUS
<1> HIDE DEF row, entries, request
<1>4. ASSUME answer.status = 200
      PROVE  answer.low <= answer.est /\ answer.est <= answer.high
  <2>1. PICK model : answer = Answered(EstimateFor(Inputs, Over(request, [model |-> model])), request.asking)
    <3> DEFINE known == {e \in entries : e.category = request.category /\ e.trim = request.trim}
               model == (CHOOSE e \in known : TRUE).model
    <3>1. answer = IF known = {} THEN [status |-> 422, reason |-> "unknown trim"]
                   ELSE Answered(EstimateFor(Inputs, Over(request, [model |-> model])), request.asking)
      BY DEF EstimateRequest
    <3> HIDE DEF known, model, answer
    <3>2. ASSUME known = {} PROVE FALSE
      <4>1. answer = [status |-> 422, reason |-> "unknown trim"]
        BY <3>1, <3>2
      <4>2. answer.status = 422
        BY <4>1
      <4> QED
        BY <1>4, <4>2
    <3> QED
      BY <3>1, <3>2
  <2> DEFINE query == Over(request, [model |-> model])
  <2>2. query.km = row.km /\ query.insurance = row.insurance
    BY <1>3 DEF Over
  <2> HIDE DEF query, answer
  <2>3. answer = Answered(EstimateFor(Inputs, query), request.asking)
    BY <2>1 DEF query
  <2> QED
    BY <1>1, <1>2, <1>4, <2>2, <2>3, AnswersAreBanded
<1> QED
  BY <1>4 DEF row, entries, request

-----------------------------------------------------------------------------
\* Sums over finite sets, taken in the order MapThenSumSet chooses.
First(s) == CHOOSE x \in s : TRUE

SumsUp(g, S, weight) ==
  g = [s \in SUBSET S |-> IF s = {} THEN 0 ELSE weight[First(s)] + g[s \ {First(s)}]]

\* A whole shared out among the keys, each with the size of its part.
Shares(part, S, weight, whole) ==
  /\ \A x \in S : IsFiniteSet(part[x]) /\ weight[x] = Cardinality(part[x])
  /\ \A x, y \in S : x # y => part[x] \cap part[y] = {}
  /\ UNION {part[x] : x \in S} = whole

LEMMA SizesSumUp ==
    ASSUME NEW S, IsFiniteSet(S), NEW part, NEW weight, NEW whole, Shares(part, S, weight, whole)
    PROVE  SumsUp([s \in SUBSET S |-> Cardinality(UNION {part[x] : x \in s})], S, weight)
<1> DEFINE all(s) == UNION {part[x] : x \in s}
           h == [s \in SUBSET S |-> Cardinality(all(s))]
<1> USE DEF Shares
<1>1. ASSUME NEW s \in SUBSET S
      PROVE  IsFiniteSet(all(s))
  <2> DEFINE parts == {part[x] : x \in s}
             f == [x \in s |-> part[x]]
  <2>1. IsFiniteSet(s)
    BY FS_Subset
  <2>2. f \in Surjection(s, parts)
    BY DEF Surjection
  <2>3. \A T \in parts : IsFiniteSet(T)
    OBVIOUS
  <2> HIDE DEF f, parts
  <2>4. IsFiniteSet(parts)
    BY <2>1, <2>2, FS_Surjection
  <2>5. IsFiniteSet(UNION parts)
    BY <2>3, <2>4, FS_UNION
  <2> QED
    BY <2>5 DEF parts
<1>2. all({}) = {}
  OBVIOUS
<1>3. ASSUME NEW s \in SUBSET S, s # {}
      PROVE  h[s] = weight[First(s)] + h[s \ {First(s)}]
  <2> DEFINE x == First(s)
             rest == s \ {x}
  <2>1. x \in s
    BY <1>3 DEF First
  <2> HIDE DEF x
  <2>2. rest \in SUBSET S /\ x \in S
    BY <2>1
  <2>3. all(s) = part[x] \cup all(rest) /\ part[x] \cap all(rest) = {}
    BY <2>1, <2>2
  <2>4. IsFiniteSet(part[x]) /\ IsFiniteSet(all(rest))
    BY <1>1, <2>2
  <2>5. weight[x] = Cardinality(part[x]) /\ h[rest] = Cardinality(all(rest)) /\ h[s] = Cardinality(all(s))
    BY <2>2
  <2> HIDE DEF all, h, rest
  <2>6. Cardinality(all(s)) = Cardinality(part[x]) + Cardinality(all(rest))
    <3>1. Cardinality(part[x] \cup all(rest))
            = Cardinality(part[x]) + Cardinality(all(rest)) - Cardinality(part[x] \cap all(rest))
      BY <2>4, FS_Union
    <3>2. Cardinality(part[x] \cap all(rest)) = 0
      BY <2>3, FS_EmptySet
    <3>3. Cardinality(part[x]) \in Nat /\ Cardinality(all(rest)) \in Nat
      BY <2>4, FS_CardinalityType
    <3> QED
      BY <2>3, <3>1, <3>2, <3>3
  <2> QED
    BY <2>5, <2>6 DEF x, rest
<1>4. h[{}] = 0
  BY <1>2, FS_EmptySet
<1>5. SumsUp(h, S, weight)
  <2>1. \A s \in SUBSET S : h[s] = IF s = {} THEN 0 ELSE weight[First(s)] + h[s \ {First(s)}]
    BY <1>3, <1>4
  <2>2. h = [s \in SUBSET S |-> h[s]]
    OBVIOUS
  <2> HIDE DEF h
  <2> QED
    BY <2>1, <2>2 DEF SumsUp
<1> QED
  BY <1>5

\* There is one sum.
LEMMA OneSum ==
    ASSUME NEW S, IsFiniteSet(S), NEW weight, NEW g, NEW h, SumsUp(g, S, weight), SumsUp(h, S, weight)
    PROVE  g[S] = h[S]
<1> DEFINE bad == {s \in SUBSET S : g[s] # h[s]}
           N == {Cardinality(s) : s \in bad}
           R == OpToRel(<, Nat)
<1>1. SUFFICES ASSUME bad # {} PROVE FALSE
  OBVIOUS
<1>2. \A s \in SUBSET S : IsFiniteSet(s) /\ Cardinality(s) \in Nat
  BY FS_Subset, FS_CardinalityType
<1>3. N # {} /\ N \subseteq Nat
  BY <1>1, <1>2
<1>4. PICK m \in N : \A x \in N : <<x, m>> \notin R
  <2>1. IsWellFoundedOn(R, Nat)
    BY NatLessThanWellFounded
  <2> HIDE DEF R, N
  <2> QED
    BY <1>3, <2>1, WFMin
<1>5. PICK s \in bad : m = Cardinality(s)
  OBVIOUS
<1>6. s \in SUBSET S /\ g[s] # h[s]
  OBVIOUS
<1>7. s # {}
  BY <1>6 DEF SumsUp
<1> DEFINE x == First(s)
           rest == s \ {x}
<1>8. x \in s
  BY <1>7 DEF First
<1>9. /\ g[s] = weight[x] + g[rest] /\ h[s] = weight[x] + h[rest]
  BY <1>6, <1>7 DEF SumsUp
<1> HIDE DEF x
<1>10. rest \in bad
  BY <1>6, <1>9
<1>11. Cardinality(rest) = Cardinality(s) - 1 /\ Cardinality(s) \in Nat /\ Cardinality(rest) \in Nat
  BY <1>2, <1>6, <1>8, FS_RemoveElement
<1>12. Cardinality(rest) \in N /\ <<Cardinality(rest), m>> \in R
  <2>1. Cardinality(rest) \in N
    BY <1>10
  <2> HIDE DEF rest, bad, N
  <2> QED
    BY <1>5, <1>11, <2>1 DEF OpToRel
<1> HIDE DEF R, N
<1> QED
  BY <1>4, <1>12

\* The sizes of the parts of a whole add up to its size, whatever the order.
LEMMA SharesSum ==
    ASSUME NEW S, IsFiniteSet(S), NEW part, NEW weight, NEW whole, Shares(part, S, weight, whole)
    PROVE  /\ \E g : SumsUp(g, S, weight)
           /\ \A g : SumsUp(g, S, weight) => g[S] = Cardinality(whole)
<1> DEFINE sizes == [s \in SUBSET S |-> Cardinality(UNION {part[x] : x \in s})]
<1>1. SumsUp(sizes, S, weight)
  BY SizesSumUp
<1>2. sizes[S] = Cardinality(whole)
  BY DEF Shares
<1> HIDE DEF sizes
<1> QED
  BY <1>1, <1>2, OneSum

-----------------------------------------------------------------------------
\* The rows of a model, with the prices that are believed.
ModelRowsOK(rows) ==
  IsFiniteSet(rows) /\ \A r \in rows : r.price \in (Nat \ {0}) \cup {NULL}

LEMMA RowsOfModel ==
    ASSUME NEW listings, MarketOK(listings), NEW estimates, NEW model
    PROVE  ModelRowsOK(LoadModelRows(listings, estimates, model))
<1> DEFINE ids == {i \in DOMAIN listings : listings[i].model = model}
           rowOf == [i \in ids |->
                       [id |-> i, trim |-> listings[i].trim, year |-> listings[i].year,
                        price |-> IF estimates[i].suspect THEN NULL ELSE listings[i].price,
                        score |-> estimates[i].score]]
           rows == LoadModelRows(listings, estimates, model)
<1>1. IsFiniteSet(ids)
  <2>1. ids \in SUBSET DOMAIN listings
    OBVIOUS
  <2> HIDE DEF ids
  <2> QED
    BY <2>1, FS_Subset DEF MarketOK
<1>2. rows = {rowOf[i] : i \in ids}
  BY DEF LoadModelRows
<1>3. IsFiniteSet(rows)
  <2>1. DOMAIN rowOf = ids /\ rowOf = [i \in ids |-> rowOf[i]]
    OBVIOUS
  <2> HIDE DEF rowOf, ids, rows
  <2>2. rowOf \in Surjection(ids, rows)
    BY <1>2, <2>1 DEF Surjection
  <2> QED
    BY <1>1, <2>2, FS_Surjection
<1>4. \A i \in ids : rowOf[i].price \in (Nat \ {0}) \cup {NULL}
  BY DEF MarketOK, RowOK
<1> HIDE DEF rowOf, ids, rows
<1>5. \A r \in rows : r.price \in (Nat \ {0}) \cup {NULL}
  BY <1>2, <1>4
<1> QED
  BY <1>3, <1>5 DEF ModelRowsOK, rows

LEMMA SortedPricesOf ==
    ASSUME NEW rows, ModelRowsOK(rows)
    PROVE  /\ Cardinality(Priced(rows)) \in Nat
           /\ DOMAIN SortedPrices(rows) = 1..Cardinality(Priced(rows))
           /\ Len(SortedPrices(rows)) = Cardinality(Priced(rows))
           /\ \A k \in 1..Cardinality(Priced(rows)) : SortedPrices(rows)[k] \in Int
           /\ (SortedPrices(rows) = <<>>) <=> (Priced(rows) = {})
<1> DEFINE ids == Priced(rows)
           value == [r \in ids |-> r.price]
           s == SortedBy(ids, value)
           n == Cardinality(ids)
<1>1. Numbered(ids, value)
  <2>1. ids \in SUBSET rows /\ \A r \in ids : value[r] \in Int
    BY DEF Priced, ModelRowsOK
  <2> HIDE DEF ids, value
  <2> QED
    BY <2>1, FS_Subset DEF Numbered, ModelRowsOK
<1> HIDE DEF ids, value, s, n
<1>2. /\ n \in Nat /\ DOMAIN s = 1..n /\ Len(s) = n
      /\ \A k \in 1..n : \E r \in ids : s[k] = value[r]
  BY <1>1, SortedValues DEF s, n
<1>3. \A k \in 1..n : s[k] \in Int
  BY <1>1, <1>2 DEF Numbered
<1>4. (n = 0) <=> (ids = {})
  BY <1>1, FS_EmptySet DEF Numbered, n
<1>5. (s = <<>>) <=> (n = 0)
  <2>1. ASSUME n = 0 PROVE s = <<>>
    <3>1. s \in [1..0 -> {}]
      <4>1. s = [k \in 1..n |-> s[k]]
        BY DEF s, SortedBy, n
      <4> QED
        BY <2>1, <4>1
    <3> QED
      BY <3>1
  <2>2. Len(<<>>) = 0
    OBVIOUS
  <2> QED
    BY <1>2, <2>1, <2>2
<1> QED
  BY <1>2, <1>3, <1>4, <1>5 DEF s, n, ids, value, SortedPrices

\* Every price falls into one of the buckets.
LEMMA BucketsCover ==
    ASSUME NEW s, NEW n \in Nat \ {0}, Len(s) = n, \A k \in 1..n : s[k] \in Int
    PROVE  LET bounds == PercentileBounds(s)
           IN \A k \in 1..n :
                BucketOf(s[k], bounds.low, BucketWidth(bounds)) \in 0..(HISTOGRAM_BUCKETS - 1)
<1> DEFINE bounds == PercentileBounds(s)
           width == BucketWidth(bounds)
<1>1. \A m \in Int : RoundDiv(m, PERCENTILE_STEPS) \in Int
  BY DEF RoundDiv, PERCENTILE_STEPS
<1>2. ASSUME NEW k \in {1, 19}, n >= 2 PROVE Inclusive(s, k, PERCENTILE_STEPS) \in Int
  <2> DEFINE position == k * (n - 1)
             j == position \div 20
             delta == position % 20
             upper == IF delta = 0 THEN s[j + 1] ELSE s[j + 2]
  <2>1. /\ j \in 0..(n - 1) /\ delta \in 0..19 /\ (delta # 0 => j <= n - 2)
    BY <1>2
  <2>2. Inclusive(s, k, PERCENTILE_STEPS) = RoundDiv(s[j + 1] * (20 - delta) + upper * delta, PERCENTILE_STEPS)
    BY DEF Inclusive, PERCENTILE_STEPS
  <2> HIDE DEF j, delta
  <2>3. s[j + 1] \in Int /\ upper \in Int
    BY <2>1
  <2>4. s[j + 1] * (20 - delta) + upper * delta \in Int
    <3> HIDE DEF upper
    <3> QED
      BY <2>1, <2>3
  <2> HIDE DEF upper
  <2> QED
    BY <1>1, <2>2, <2>4
<1>3. bounds.low \in Int /\ bounds.high \in Int
  <2>1. CASE n < 2
    <3>1. n = 1 /\ s[1] \in Int
      BY <2>1
    <3> QED
      BY <3>1 DEF PercentileBounds
  <2>2. CASE n >= 2
    <3>1. Inclusive(s, 1, PERCENTILE_STEPS) \in Int /\ Inclusive(s, 19, PERCENTILE_STEPS) \in Int
      BY <1>2, <2>2
    <3>2. PERCENTILE_STEPS - 1 = 19
      BY DEF PERCENTILE_STEPS
    <3> QED
      BY <2>2, <3>1, <3>2 DEF PercentileBounds
  <2> QED
    BY <2>1, <2>2
<1> HIDE DEF bounds
<1>4. width \in Int /\ width > 0
  <2>1. HISTOGRAM_BUCKETS \in Int /\ HISTOGRAM_BUCKETS > 0
    BY StatsAssumption
  <2>2. (bounds.low - bounds.high) \div HISTOGRAM_BUCKETS \in Int
    BY <1>3, <2>1
  <2> QED
    BY <2>2 DEF BucketWidth
<1> HIDE DEF width
<1>5. ASSUME NEW k \in 1..n PROVE BucketOf(s[k], bounds.low, width) \in 0..(HISTOGRAM_BUCKETS - 1)
  <2>1. (s[k] - bounds.low) \div width \in Int
    <3>1. s[k] - bounds.low \in Int
      BY <1>3
    <3> QED
      BY <1>4, <3>1
  <2> QED
    BY <2>1, StatsAssumption DEF BucketOf, Clamp
<1> QED
  BY <1>5 DEF bounds, width

\* The rows in each bucket of a histogram, by position among the sorted prices.
LEMMA HistogramShares ==
    ASSUME NEW rows, ModelRowsOK(rows), NEW h, h = Histogram(SortedPrices(rows)),
           NEW n, n = Cardinality(Priced(rows))
    PROVE  /\ IsFiniteSet(DOMAIN h)
           /\ \E part : Shares(part, DOMAIN h, [b \in DOMAIN h |-> h[b].count], 1..n)
<1> DEFINE s == SortedPrices(rows)
           bounds == PercentileBounds(s)
           low == bounds.low
           width == BucketWidth(bounds)
           bucket(k) == BucketOf(s[k], low, width)
           part == [b \in DOMAIN h |-> {k \in 1..n : bucket(k) = b - 1}]
<1>1. /\ n \in Nat /\ DOMAIN s = 1..n /\ Len(s) = n /\ \A k \in 1..n : s[k] \in Int
      /\ (s = <<>>) <=> (n = 0)
  <2>1. (Priced(rows) = {}) <=> (n = 0)
    BY FS_EmptySet, FS_Subset DEF Priced, ModelRowsOK
  <2> QED
    BY <2>1, SortedPricesOf
<1>2. h = IF s = <<>> THEN <<>> ELSE Buckets(s, low, width)
  BY DEF Histogram
<1> HIDE DEF s
<1>3. CASE n = 0
  <2>1. DOMAIN h = {}
    BY <1>1, <1>2, <1>3, EmptyTable
  <2>2. UNION {part[b] : b \in DOMAIN h} = 1..n
    BY <1>3, <2>1
  <2>3. Shares(part, DOMAIN h, [b \in DOMAIN h |-> h[b].count], 1..n)
    <3> HIDE DEF part
    <3> QED
      BY <2>1, <2>2 DEF Shares
  <2> HIDE DEF part
  <2> QED
    BY <2>1, <2>3, FS_EmptySet
<1>4. CASE n # 0
  <2>1. DOMAIN h = 1..HISTOGRAM_BUCKETS
    BY <1>1, <1>2, <1>4 DEF Buckets
  <2>2. \A k \in 1..n : bucket(k) \in 0..(HISTOGRAM_BUCKETS - 1)
    <3>1. n \in Nat \ {0}
      BY <1>1, <1>4
    <3> QED
      BY <1>1, <3>1, BucketsCover
  <2>3. \A b \in DOMAIN h : h[b].count = Cardinality(part[b])
    <3>1. h = Buckets(s, low, width)
      BY <1>1, <1>2, <1>4
    <3> QED
      BY <1>1, <2>1, <3>1 DEF Buckets
  <2>4. \A b, c \in DOMAIN h : b # c => part[b] \cap part[c] = {}
    <3>1. \A b \in DOMAIN h : b \in Int
      BY <2>1
    <3> HIDE DEF bucket
    <3> QED
      BY <3>1
  <2>5. ASSUME NEW k \in 1..n PROVE \E b \in DOMAIN h : k \in part[b]
    <3>1. bucket(k) + 1 \in DOMAIN h /\ bucket(k) = (bucket(k) + 1) - 1
      BY <2>1, <2>2, StatsAssumption
    <3> HIDE DEF bucket
    <3> QED
      BY <3>1
  <2>6. IsFiniteSet(1..n) /\ IsFiniteSet(DOMAIN h)
    <3>1. 1 \in Int /\ n \in Int /\ HISTOGRAM_BUCKETS \in Int
      BY <1>1, StatsAssumption
    <3> QED
      BY <2>1, <3>1, FS_Interval
  <2>7. \A b \in DOMAIN h : part[b] \in SUBSET (1..n)
    OBVIOUS
  <2> HIDE DEF part
  <2>8. \A b \in DOMAIN h : IsFiniteSet(part[b])
    BY <2>6, <2>7, FS_Subset
  <2>9. UNION {part[b] : b \in DOMAIN h} = 1..n
    BY <2>5, <2>7
  <2>10. Shares(part, DOMAIN h, [b \in DOMAIN h |-> h[b].count], 1..n)
    BY <2>3, <2>4, <2>8, <2>9 DEF Shares
  <2> QED
    BY <2>6, <2>10
<1> QED
  BY <1>1, <1>3, <1>4

\* The trims share out the rows; one with a believable price has a median.
LEMMA TrimShares ==
    ASSUME NEW rows, ModelRowsOK(rows), NEW trims, trims = TrimStats(rows)
    PROVE  /\ IsFiniteSet(trims)
           /\ \E part : Shares(part, trims, [s \in trims |-> s.count], rows)
           /\ \A r \in Priced(rows) : \E s \in trims : s.trim = r.trim /\ s.median # NULL
<1> DEFINE of(t) == {r \in rows : r.trim = t}
           median(t) == LET own == SortedPrices(of(t))
                        IN IF own = <<>> THEN NULL ELSE RoundDiv(Median2(own), 2)
           stat(t) == [trim |-> t, count |-> Cardinality(of(t)), median |-> median(t)]
           part == [s \in trims |-> of(s.trim)]
           f == [r \in rows |-> stat(r.trim)]
<1>1. trims = {stat(t) : t \in {r.trim : r \in rows}}
  BY DEF TrimStats
<1>2. \A t : stat(t).trim = t /\ stat(t).count = Cardinality(of(t)) /\ stat(t).median = median(t)
  OBVIOUS
<1>3. \A t : of(t) \in SUBSET rows
  OBVIOUS
<1>4. \A t : IsFiniteSet(of(t)) /\ ModelRowsOK(of(t))
  <2> HIDE DEF of
  <2> QED
    BY <1>3, FS_Subset DEF ModelRowsOK
<1> HIDE DEF stat, median
<1>5. IsFiniteSet(trims)
  <2>1. f \in Surjection(rows, trims)
    BY <1>1 DEF Surjection
  <2> HIDE DEF f
  <2> QED
    BY <2>1, FS_Surjection DEF ModelRowsOK
<1>6. \A s \in trims : s = stat(s.trim)
  BY <1>1, <1>2
<1>7. \A s \in trims : IsFiniteSet(part[s]) /\ s.count = Cardinality(part[s])
  <2> SUFFICES ASSUME NEW s \in trims PROVE IsFiniteSet(part[s]) /\ s.count = Cardinality(part[s])
    OBVIOUS
  <2>1. part[s] = of(s.trim)
    OBVIOUS
  <2> HIDE DEF of, part
  <2>2. stat(s.trim).count = Cardinality(of(s.trim)) /\ s = stat(s.trim)
    BY <1>2, <1>6
  <2> QED
    BY <1>4, <2>1, <2>2
<1>8. \A s, u \in trims : s # u => part[s] \cap part[u] = {}
  <2>1. \A s, u \in trims : s # u => s.trim # u.trim
    BY <1>6
  <2> QED
    BY <2>1
<1>9. UNION {part[s] : s \in trims} = rows
  <2>1. ASSUME NEW r \in rows PROVE \E s \in trims : r \in part[s]
    <3>1. stat(r.trim) \in trims /\ stat(r.trim).trim = r.trim
      BY <1>1, <1>2
    <3> QED
      BY <3>1
  <2>2. \A s \in trims : part[s] \in SUBSET rows
    OBVIOUS
  <2> HIDE DEF part
  <2> QED
    BY <2>1, <2>2
<1>10. ASSUME NEW r \in Priced(rows) PROVE \E s \in trims : s.trim = r.trim /\ s.median # NULL
  <2> DEFINE own == SortedPrices(of(r.trim))
             n == Cardinality(Priced(of(r.trim)))
  <2>1. r \in rows /\ r \in Priced(of(r.trim))
    BY DEF Priced
  <2>2. /\ n \in Nat /\ Len(own) = n /\ (\A k \in 1..n : own[k] \in Int) /\ own # <<>>
    BY <1>4, <2>1, SortedPricesOf
  <2>3. n # 0
    <3>1. IsFiniteSet(Priced(of(r.trim)))
      <4>1. Priced(of(r.trim)) \in SUBSET of(r.trim)
        BY DEF Priced
      <4> QED
        BY <1>4, <4>1, FS_Subset
    <3> QED
      BY <2>1, <3>1, FS_EmptySet
  <2>4. median(r.trim) = RoundDiv(Median2(own), 2)
    BY <2>2 DEF median
  <2> HIDE DEF own, n
  <2>5. Median2(own) \in Int
    <3>1. (n + 1) \div 2 \in 1..n /\ (n + 2) \div 2 \in 1..n
      BY <2>2, <2>3
    <3> QED
      BY <2>2, <3>1 DEF Median2
  <2>6. RoundDiv(Median2(own), 2) \in Int
    <3> HIDE DEF Median2
    <3> QED
      BY <2>5 DEF RoundDiv
  <2>7. median(r.trim) # NULL
    BY <2>4, <2>6, IngestAssumption
  <2>8. stat(r.trim) \in trims /\ stat(r.trim).trim = r.trim /\ stat(r.trim).median = median(r.trim)
    BY <1>1, <1>2, <2>1
  <2> QED
    BY <2>7, <2>8
<1> HIDE DEF part
<1>11. Shares(part, trims, [s \in trims |-> s.count], rows)
  BY <1>7, <1>8, <1>9 DEF Shares
<1> QED
  BY <1>5, <1>10, <1>11

\* The histogram counts every believable price once and the trims share out the listings
\* (build_stats).
LEMMA CountsAll == ListingsRead => HistogramCountsAll
<1> SUFFICES ASSUME ListingsRead, NEW model \in {db.catalog[k].model : k \in DOMAIN db.catalog}
    PROVE  LET rows == LoadModelRows(Inputs, db.estimates, model)
               stats == GetStats(Inputs, db.estimates, {db.catalog[k] : k \in DOMAIN db.catalog}, model)
           IN /\ Cardinality(Priced(rows)) =
                   MapThenSumSet(LAMBDA b : stats.histogram[b].count, DOMAIN stats.histogram)
              /\ stats.count = MapThenSumSet(LAMBDA s : s.count, stats.trims)
              /\ \A r \in Priced(rows) : \E s \in stats.trims : s.trim = r.trim /\ s.median # NULL
  BY DEF HistogramCountsAll
<1> DEFINE rows == LoadModelRows(Inputs, db.estimates, model)
           entries == {db.catalog[k] : k \in DOMAIN db.catalog}
           stats == GetStats(Inputs, db.estimates, entries, model)
           summary == Summary(rows)
           h == stats.histogram
           trims == stats.trims
           n == Cardinality(Priced(rows))
<1>1. ModelRowsOK(rows)
  BY MarketRead, RowsOfModel DEF ListingsRead, Inputs
<1>2. stats = Over([status |-> 200], summary)
  BY DEF GetStats
<1>3. /\ DOMAIN summary = {"count", "years", "median", "prices", "histogram", "trims", "top"}
      /\ summary.count = Cardinality(rows)
      /\ summary.histogram = Histogram(SortedPrices(rows))
      /\ summary.trims = TrimStats(rows)
  BY DEF Summary, Summarized
<1> HIDE DEF summary, stats
<1>4. \A field \in {"count", "histogram", "trims"} : stats[field] = summary[field]
  BY <1>2, <1>3 DEF Over
<1>5. /\ stats.count = Cardinality(rows)
      /\ h = Histogram(SortedPrices(rows)) /\ trims = TrimStats(rows)
  BY <1>3, <1>4
<1>6. MapThenSumSet(LAMBDA b : stats.histogram[b].count, DOMAIN stats.histogram) = n
  <2> DEFINE S == DOMAIN h
             weight == [b \in S |-> h[b].count]
             sums(g) == g = [s \in SUBSET S |-> IF s = {} THEN 0 ELSE h[First(s)].count + g[s \ {First(s)}]]
             g == CHOOSE g : sums(g)
  <2>1. MapThenSumSet(LAMBDA b : stats.histogram[b].count, DOMAIN stats.histogram) = g[S]
    BY DEF MapThenSumSet, MapThenFoldSet, First
  <2> HIDE DEF h, rows, n
  <2>2. \A f : sums(f) <=> SumsUp(f, S, weight)
    <3>1. \A s \in SUBSET S : s # {} => weight[First(s)] = h[First(s)].count
      BY DEF First
    <3> HIDE DEF weight
    <3> QED
      BY <3>1 DEF SumsUp
  <2>3. IsFiniteSet(S) /\ \E part : Shares(part, S, weight, 1..n)
    BY <1>1, <1>5, HistogramShares DEF n
  <2>4. Cardinality(1..n) = n
    <3>1. n \in Nat
      BY <1>1, SortedPricesOf DEF n
    <3>2. 1 \in Int /\ n \in Int
      BY <3>1
    <3> QED
      BY <3>1, <3>2, FS_Interval
  <2> HIDE DEF S, weight, sums
  <2>5. sums(g)
    BY <2>2, <2>3, SharesSum
  <2> HIDE DEF g
  <2>6. SumsUp(g, S, weight)
    BY <2>2, <2>5
  <2>7. g[S] = Cardinality(1..n)
    BY <2>3, <2>6, SharesSum
  <2> QED
    BY <2>1, <2>4, <2>7
<1>7. MapThenSumSet(LAMBDA s : s.count, stats.trims) = Cardinality(rows)
  <2> DEFINE weight == [t \in trims |-> t.count]
             sums(g) == g = [s \in SUBSET trims |-> IF s = {} THEN 0 ELSE First(s).count + g[s \ {First(s)}]]
             g == CHOOSE g : sums(g)
  <2>1. MapThenSumSet(LAMBDA s : s.count, stats.trims) = g[trims]
    BY DEF MapThenSumSet, MapThenFoldSet, First
  <2> HIDE DEF trims, rows
  <2>2. \A f : sums(f) <=> SumsUp(f, trims, weight)
    <3>1. \A s \in SUBSET trims : s # {} => weight[First(s)] = First(s).count
      BY DEF First
    <3> HIDE DEF weight
    <3> QED
      BY <3>1 DEF SumsUp
  <2>3. IsFiniteSet(trims) /\ \E part : Shares(part, trims, weight, rows)
    BY <1>1, <1>5, TrimShares
  <2> HIDE DEF weight, sums
  <2>4. sums(g)
    BY <2>2, <2>3, SharesSum
  <2> HIDE DEF g
  <2>5. SumsUp(g, trims, weight)
    BY <2>2, <2>4
  <2>6. g[trims] = Cardinality(rows)
    BY <2>3, <2>5, SharesSum
  <2> QED
    BY <2>1, <2>6
<1>8. \A r \in Priced(rows) : \E s \in trims : s.trim = r.trim /\ s.median # NULL
  <2> HIDE DEF rows, trims
  <2> QED
    BY <1>1, <1>5, TrimShares
<1> QED
  BY <1>5, <1>6, <1>7, <1>8 DEF stats

-----------------------------------------------------------------------------
\* A listing never validates itself and nothing else is left out: at every commit, the bulk pass
\* found for it the basis, the sample and the estimate that POST /estimates finds for the same
\* vehicle in a table without it (_base_price, estimate_for).
THEOREM BulkAlwaysMatchesQuery == Spec => []BulkMatchesQuery
BY BulkIsQuery, ListingsAreRead, PTL

\* A seller who asks less never gets a worse score, whatever the market (_estimate, _deal_score).
THEOREM CheaperNeverScoresWorse == Spec => []CheaperScoresNoWorse
BY CheaperIsNoWorse, ListingsAreRead, PTL

\* An answered estimate lies in its own band, however few the comparables the quartiles are
\* extrapolated from (_single, EstimateService.estimate).
THEOREM BandAlwaysHoldsEstimate == Spec => []BandHoldsEstimate
BY BandIsHeld, ListingsAreRead, PTL

\* The histogram of a model counts every believable price once and its trims share out its
\* listings (model_stats.py).
THEOREM HistogramAlwaysCountsAll == Spec => []HistogramCountsAll
BY CountsAll, ListingsAreRead, PTL
=============================================================================
