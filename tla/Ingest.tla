------------------------------- MODULE Ingest -------------------------------
(***************************************************************************)
(* `python -m ingest <csv>`: one file after the other is mapped, upserted,  *)
(* counted, estimated and committed in one transaction                      *)
(* (src/backend/ingest, the write side of the city, catalog and listing    *)
(* repositories).  `db` is what the API reads, `tx` the rows the running    *)
(* ingest sees.  Row locks and a second ingest at the same time are left   *)
(* to SearchCache, which models the order of bump and commit.              *)
(***************************************************************************)
EXTENDS ModelStats

CONSTANTS
  Files,                \* the files an operator may ingest: sequences of raw rows
  MultiTokenBrands,     \* brands written in several words: sequences of words
  MAX_REJECT_PERCENT,
  UPSERT_BATCH_SIZE,
  MIN_PLAUSIBLE_PRICE_TOMAN,
  MAX_PLAUSIBLE_KM,
  MaxRuns               \* bound: ingests started

\* Numbers are read from digits (parse_digits); the body is a word of the closed vocabulary.
NumbersRead(raw) ==
  /\ {raw.price, raw.year, raw.km, raw.insurance} \subseteq Nat \cup {NULL}
  /\ raw.body \in DOMAIN BodyFactors \cup {NULL}

ASSUME IngestAssumption ==
  /\ \A f \in Files : /\ Len(f) \in Nat /\ DOMAIN f = 1..Len(f)
                      /\ \A k \in DOMAIN f : NumbersRead(f[k])
  /\ \A body \in DOMAIN BodyFactors : BodyFactors[body] \in Int
  /\ NULL \notin Int
  /\ MIN_PLAUSIBLE_PRICE_TOMAN \in Nat \ {0}
  /\ UPSERT_BATCH_SIZE \in Nat \ {0}
  /\ MAX_REJECT_PERCENT \in 0..100
  /\ MaxRuns \in Nat

VARIABLES db, tx, stage, file, version, runs, lastFile
vars == <<db, tx, stage, file, version, runs, lastFile>>

MIN_JALALI_YEAR == 1300
MAX_JALALI_YEAR == 1420
GREGORIAN_TO_JALALI_OFFSET == 621
MAX_INSURANCE_MONTHS == 12

-----------------------------------------------------------------------------
\* One CSV row.  raw.bad names the columns that are blank or hold a word the
\* closed vocabularies do not know; numbers are read already, NULL if blank.

ParseYear(raw) ==
  LET jalali == IF raw.year > MAX_JALALI_YEAR
                  THEN raw.year - GREGORIAN_TO_JALALI_OFFSET ELSE raw.year
      year == IF raw.before THEN jalali - 1 ELSE jalali
  IN IF raw.year # NULL /\ year \in MIN_JALALI_YEAR..MAX_JALALI_YEAR THEN year ELSE NULL

ParsePrice(raw) ==
  IF raw.price # NULL /\ raw.price >= MIN_PLAUSIBLE_PRICE_TOMAN THEN raw.price ELSE NULL

ParseKm(raw) == IF raw.km # NULL /\ raw.km < MAX_PLAUSIBLE_KM THEN raw.km ELSE NULL

ParseInsurance(raw) ==
  IF raw.insurance # NULL /\ raw.insurance <= MAX_INSURANCE_MONTHS
    THEN raw.insurance ELSE NULL

\* The brand's words, then the model: the brand and the one word after it.
BrandOf(trim) ==
  LET known == {b \in MultiTokenBrands : IsPrefix(b, trim)}
  IN IF known = {} THEN <<trim[1]>> ELSE CHOOSE b \in known : TRUE

ModelOf(trim) ==
  LET words == Len(BrandOf(trim)) + 1
  IN IF Len(trim) < words THEN BrandOf(trim) ELSE SubSeq(trim, 1, words)

\* map_row's checks in the order it makes them, and which of them only reject
\* the row; an unknown word of a vocabulary, and a time ("fetch_time") or coordinate that
\* is not a number, stop the whole ingest.
Checks == << "category", "fetched_at", "fetch_time", "title", "token", "source", "city",
             "gearbox", "fuel", "body", "price_type", "document", "coordinate" >>
Rejecting == {"category", "fetched_at", "title", "token", "city"}

FirstBad(raw) ==
  LET bad == {k \in DOMAIN Checks : Checks[k] \in raw.bad}
  IN IF bad = {} THEN NULL ELSE Checks[Min(bad)]

Rejected(raw) == FirstBad(raw) \in Rejecting
Fatal(raw) == FirstBad(raw) \notin Rejecting \cup {NULL}

MapRow(raw) ==
  [category |-> raw.category,
   catalog |-> IF raw.trim = <<>> THEN NULL ELSE <<raw.category, raw.trim>>,
   city |-> raw.city,
   year |-> ParseYear(raw),
   km |-> ParseKm(raw),
   price |-> ParsePrice(raw),
   insurance |-> ParseInsurance(raw),
   body |-> raw.body,
   source |-> IF raw.source = NULL THEN "divar" ELSE raw.source]

\* A fatal row is met only if no earlier row already ended the run.
Mapped(rows) ==
  LET kept == {k \in DOMAIN rows : ~Rejected(rows[k])}
      place(k) == Cardinality({j \in kept : j <= k})
  IN [n \in 1..Cardinality(kept) |-> rows[CHOOSE k \in kept : place(k) = n]]
TooManyRejects(rows) ==
  100 * (Len(rows) - Len(Mapped(rows))) > MAX_REJECT_PERCENT * Len(rows)

-----------------------------------------------------------------------------
\* The tables.

Tables(listings, estimates, cities, catalog) ==
  [listings |-> listings, estimates |-> estimates, cities |-> cities, catalog |-> catalog]
Empty == Tables(<<>>, <<>>, <<>>, <<>>)

\* An insert that does nothing for the keys that are there.
InsertNew(table, keys, value(_)) == Over(table, [k \in keys |-> value(k)])

UpsertNames(cities, mapped) ==
  InsertNew(cities, {mapped[k].city : k \in DOMAIN mapped}, LAMBDA c : 0)

UpsertEntries(catalog, mapped) ==
  LET keys == {mapped[k].catalog : k \in DOMAIN mapped} \ {NULL}
  IN InsertNew(catalog, keys, LAMBDA key : [brand |-> BrandOf(key[2]),
                                            model |-> ModelOf(key[2]), count |-> 0])

\* PostgreSQL refuses a statement that would update one row twice.
RepeatsInBatch(tokens) ==
  \E j, k \in DOMAIN tokens :
    /\ j < k
    /\ tokens[j] = tokens[k]
    /\ (j - 1) \div UPSERT_BATCH_SIZE = (k - 1) \div UPSERT_BATCH_SIZE

\* The last row of a token wins.
LastWith(tokens, token) == Max({k \in DOMAIN tokens : tokens[k] = token})

UpsertMany(listings, mapped, tokens) ==
  Over([t \in ToSet(tokens) |-> mapped[LastWith(tokens, t)]], listings)

\* Mutant: the listings of this file are added to the count.
RefreshStatistics_Added(cities, listings) ==
  [c \in DOMAIN cities |-> cities[c] + Cardinality({t \in DOMAIN listings : listings[t].city = c})]

\* An UPDATE joined to the groups that exist: other rows keep their count.
RefreshStatistics(cities, listings) ==
  [c \in DOMAIN cities |->
     LET here == {t \in DOMAIN listings : listings[t].city = c}
     IN IF here = {} THEN cities[c] ELSE Cardinality(here)]

\* Mutant: only entries that were never counted are.
RefreshCounts_NewOnly(catalog, listings) ==
  [key \in DOMAIN catalog |->
     IF catalog[key].count # 0 THEN catalog[key]
     ELSE [catalog[key] EXCEPT
             !.count = Cardinality({t \in DOMAIN listings : listings[t].catalog = key})]]

RefreshCounts(catalog, listings) ==
  [key \in DOMAIN catalog |->
     LET used == {t \in DOMAIN listings : listings[t].catalog = key}
     IN IF used = {} THEN catalog[key]
        ELSE [catalog[key] EXCEPT !.count = Cardinality(used)]]

\* load_estimator_inputs: every listing, outer-joined to its catalog entry.
EstimatorInputs(listings, catalog) ==
  [t \in DOMAIN listings |->
     LET key == listings[t].catalog
     IN Over(listings[t], [trim |-> IF key = NULL THEN NULL ELSE key[2],
                           model |-> IF key = NULL THEN NULL ELSE catalog[key].model])]

-----------------------------------------------------------------------------
Init ==
  /\ db = Empty /\ tx = Empty
  /\ stage = "idle" /\ file = <<>>
  /\ version = 0 /\ runs = 0
  /\ lastFile = <<>>

End == stage' = "idle" /\ file' = <<>> /\ tx' = Empty

\* _map_rows, then the limit on rejects: nothing is written before both passed.
Start(f) ==
  /\ stage = "idle" /\ runs < MaxRuns
  /\ runs' = runs + 1
  /\ IF (\E k \in DOMAIN f : Fatal(f[k])) \/ TooManyRejects(f)
       THEN End
       ELSE stage' = "upsert" /\ file' = Mapped(f) /\ tx' = db
  /\ UNCHANGED <<db, version, lastFile>>

MappedFile == [k \in DOMAIN file |-> MapRow(file[k])]
Tokens == [k \in DOMAIN file |-> file[k].token]

Upsert ==
  /\ stage = "upsert"
  /\ IF RepeatsInBatch(Tokens)
       THEN End
       ELSE /\ LET listings == UpsertMany(tx.listings, MappedFile, Tokens)
               IN tx' = [tx EXCEPT
                    !.cities = UpsertNames(@, MappedFile),
                    !.catalog = UpsertEntries(@, MappedFile),
                    !.listings = listings,
                    !.estimates = Over(@, [t \in DOMAIN listings |-> NoEstimate])]
            /\ stage' = "refresh"
            /\ UNCHANGED file
  /\ UNCHANGED <<db, version, runs, lastFile>>

Refresh ==
  /\ stage = "refresh"
  /\ tx' = [tx EXCEPT !.cities = RefreshStatistics(@, tx.listings),
                      !.catalog = RefreshCounts(@, tx.listings)]
  /\ stage' = "estimate"
  /\ UNCHANGED <<db, file, version, runs, lastFile>>

\* Mutant: only the rows of the file are estimated.
EstimateListings_FileOnly ==
  /\ stage = "estimate"
  /\ tx' = [tx EXCEPT !.estimates =
              LET inputs == EstimatorInputs(tx.listings, tx.catalog)
              IN Over([t \in ToSet(Tokens) |-> Estimate(inputs, inputs[t])], @)]
  /\ stage' = "bump"
  /\ UNCHANGED <<db, file, version, runs, lastFile>>

EstimateListings ==
  /\ stage = "estimate"
  /\ tx' = [tx EXCEPT !.estimates = EstimateAll(EstimatorInputs(tx.listings, tx.catalog))]
  /\ stage' = "bump"
  /\ UNCHANGED <<db, file, version, runs, lastFile>>

BumpDataVersion ==
  /\ stage = "bump"
  /\ version' = version + 1
  /\ stage' = "commit"
  /\ UNCHANGED <<db, tx, file, runs, lastFile>>

Commit ==
  /\ stage = "commit"
  /\ db' = tx
  /\ lastFile' = file
  /\ End
  /\ UNCHANGED <<version, runs>>

\* The process dies, or a statement or Redis fails: the transaction is gone.
Crash ==
  /\ stage # "idle"
  /\ End
  /\ UNCHANGED <<db, version, runs, lastFile>>

Finished == stage = "idle" /\ runs = MaxRuns /\ UNCHANGED vars

Next ==
  \/ \E f \in Files : Start(f)
  \/ Upsert \/ Refresh \/ EstimateListings \/ BumpDataVersion \/ Commit
  \/ Crash
  \/ Finished

Spec == Init /\ [][Next]_vars

-----------------------------------------------------------------------------
Listings == DOMAIN db.listings
Inputs == EstimatorInputs(db.listings, db.catalog)

\* The tables readers see change only with the commit that ends an ingest: what is said of
\* them below is said, once, of the states between two ingests.
Between == stage = "idle"

\* What readers see was estimated from exactly what they see, whatever the last
\* ingest changed and wherever earlier ones stopped (pipeline.py, run).
EstimatesCurrent == Between => db.estimates = EstimateAll(Inputs)

\* A count that an entry or a city with listings shows is the number of them
\* (refresh_counts and refresh_statistics run after the upsert, not before).
CountsCurrentWhereUsed ==
  Between => \A t \in Listings :
    LET row == db.listings[t]
        sharing(field) == {u \in Listings : db.listings[u][field] = row[field]}
    IN /\ db.cities[row.city] = Cardinality(sharing("city"))
       /\ row.catalog # NULL =>
            db.catalog[row.catalog].count = Cardinality(sharing("catalog"))

\* A listing never validates itself and nothing else is left out: the bulk pass
\* finds the basis and the sample that POST /estimates finds for the same vehicle
\* in a table without the listing, or in the whole table when its source is not
\* the market (_base_price, estimate_for).
BulkMatchesQuery ==
  Between => \A t \in {t \in Listings : IsComparable(Inputs[t])} :
    LET row == Inputs[t]
        table == IF IsBaseline(row) THEN RestrictDomain(Inputs, LAMBDA u : u # t) ELSE Inputs
        agree(bulk, query) ==
          /\ bulk.basis = query.basis /\ bulk.sample = query.sample
          /\ KmFactor(table, row) = KmFactor(Inputs, row) => bulk.est = query.est
    IN agree(Estimate(Inputs, row), EstimateFor(table, row))

\* A seller who asks less never gets a worse score: lowering the price of one
\* listing leaves its estimate alone and its score no lower, as long as the
\* price stays believable (_estimate, _deal_score).
CheaperScoresNoWorse ==
  Between => \A t \in Listings :
    LET price == Inputs[t].price
        lowered == [Inputs EXCEPT ![t].price = (9 * price) \div 10]
        noWorse(before, after) ==
          /\ after.est = before.est
          /\ NULL \notin {before.score, after.score} => after.score >= before.score
    IN price # NULL => noWorse(Estimate(Inputs, Inputs[t]), Estimate(lowered, lowered[t]))

\* An answered estimate lies in its own band, for every vehicle of the table
\* asked about as a hypothetical one (_single, EstimateService.estimate).
BandHoldsEstimate ==
  Between => \A t \in {t \in Listings : NULL \notin {Inputs[t].year, Inputs[t].trim}} :
    LET row == Inputs[t]
        entries == {[category |-> k[1], trim |-> k[2], model |-> db.catalog[k].model]
                      : k \in DOMAIN db.catalog}
        request == [category |-> row.category, trim |-> row.trim, year |-> row.year,
                    km |-> row.km, insurance |-> row.insurance, asking |-> row.price]
        banded(answer) == answer.status = 200 => answer.low <= answer.est /\ answer.est <= answer.high
    IN banded(EstimateRequest(Inputs, entries, request))

\* The histogram of a model counts every believable price once, the ones outside
\* the percentiles included, and its trims share out its listings (model_stats.py).
HistogramCountsAll ==
  Between => \A model \in {db.catalog[k].model : k \in DOMAIN db.catalog} :
    LET rows == LoadModelRows(Inputs, db.estimates, model)
        counts(stats) ==
          /\ Cardinality(Priced(rows)) =
               MapThenSumSet(LAMBDA b : stats.histogram[b].count, DOMAIN stats.histogram)
          /\ stats.count = MapThenSumSet(LAMBDA s : s.count, stats.trims)
          /\ \A r \in Priced(rows) : \E s \in stats.trims : s.trim = r.trim /\ s.median # NULL
    IN counts(GetStats(Inputs, db.estimates, {db.catalog[k] : k \in DOMAIN db.catalog}, model))

\* Ingesting the file that was ingested last changes nothing (pipeline.py:2).
Idempotent == [][stage = "commit" /\ file = lastFile /\ stage' = "idle" => db' = db]_vars

=============================================================================
