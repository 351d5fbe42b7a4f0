----------------------------- MODULE SearchQuery -----------------------------
(***************************************************************************)
(* A search from its words to its ranked listings, and the counts beside   *)
(* it: query_parser, rules_parser, schemas/search, intent_resolver, the    *)
(* candidate and facet queries of listing_repository, search_service,      *)
(* facet_service and listing_service's "similar".  Texts are sets of words. *)
(* The cached rankings are SearchCache's; here a ranking is always made.    *)
(***************************************************************************)
EXTENDS Ranking

CONSTANTS
  Listings,          \* the table: id -> row; every row has the fields of a candidate
  Catalog,           \* catalog entries: [category, brand, model, trim, words, count]
  Cities,            \* [name, place]
  Now,               \* newest_fetched_at, in days
  NewestYear,        \* the newest year a search may name
  Queries,           \* what people type: clauses, see RulesIntent
  LLMIntents,        \* what the model may make of a query
  Overrides,         \* what the filter sheet may send
  Words,             \* the words that texts are made of
  WordSimilarity(_, _),
  MAX_CANDIDATES, MAX_RESULTS, SIMILAR_PRICE_SPREAD,
  MaxMemo            \* bound: intents remembered at a time

\* Where a search states, or a listing has, a number there is one, or nothing.
Number == Int \cup {NULL}
Sorts == {"relevance", "price", "km", "newest", "deal"}
Bounds == {"yearMin", "yearMax", "priceMin", "priceMax", "kmMin", "kmMax"}

Places == ({c.place : c \in Cities} \cup {Listings[id].place : id \in DOMAIN Listings}) \ {NULL}
Ages == {Age(Listings[id], Now) : id \in {id \in DOMAIN Listings : Listings[id].posted # NULL}}

\* All that a mention says: the first of mention_queries.
Said(mention) == mention.brand \cup mention.model \cup mention.trim

ListingOK(row) ==
  /\ {"km", "year", "deal", "posted", "city", "price", "place", "brand", "model", "gearbox"}
       \subseteq DOMAIN row
  /\ {row.price, row.km, row.year, row.deal, row.posted} \subseteq Number
  /\ row.city \in {c.name : c \in Cities}
  /\ row.title \subseteq Words /\ (row.trim = NULL \/ row.trim \subseteq Words)

TableOK ==
  /\ IsFiniteSet(DOMAIN Listings) /\ DOMAIN Listings \subseteq Int
  /\ \A id \in DOMAIN Listings : ListingOK(Listings[id])

\* An entry has a brand and a model: none is counted without (the pipeline's entries).
CatalogOK ==
  /\ IsFiniteSet(Catalog)
  /\ \A e \in Catalog :
       /\ NULL \notin {e.brand, e.model} /\ e.count \in Int
       /\ \A said \in (SUBSET Words) \ {{}} : WordSimilarity(said, e.words) \in MISS..EXACT

\* A similarity is a share, a distance is not negative, and what is older is no fresher.
ScalesOK ==
  /\ \A said \in (SUBSET Words) \ {{}}, id \in DOMAIN Listings :
       WordSimilarity(said, Listings[id].title) \in MISS..EXACT
  /\ \A p, q \in Places : Distance(p, q) \in Nat
  /\ \A a, b \in Ages : FreshnessDecay(a) \in Int /\ (a <= b => FreshnessDecay(b) <= FreshnessDecay(a))

QueryOK(q) ==
  /\ DOMAIN q \subseteq Nat
  /\ \A k \in DOMAIN q : /\ q[k].kind \in {"limit", "year"} => q[k].value \in Int
                         /\ q[k].kind = "words" => q[k].words \subseteq Words

\* An intent that says nothing: SearchIntent's defaults.
NoIntent ==
  [category |-> NULL, vehicles |-> <<>>, yearMin |-> NULL, yearMax |-> NULL,
   priceMin |-> NULL, priceMax |-> NULL, kmMin |-> NULL, kmMax |-> NULL, cities |-> {},
   gearbox |-> NULL, fuel |-> NULL, colors |-> {}, sources |-> {}, priceTypes |-> {},
   documents |-> {}, onlyBelow |-> FALSE, text |-> {}, sort |-> "relevance"]

BoundsOK(i) == Bounds \subseteq DOMAIN i /\ \A f \in Bounds : i[f] \in Number
FieldsOK(i) ==
  /\ DOMAIN NoIntent \subseteq DOMAIN i /\ i.sort \in Sorts
  /\ i.text \subseteq Words /\ \A k \in DOMAIN i.vehicles : Said(i.vehicles[k]) \subseteq Words

OverridesOK(o) ==
  /\ \A f \in DOMAIN o \cap (Bounds \cup {"year"}) : o[f] \in Number
  /\ DOMAIN o \cap {"text", "vehicles"} = {} /\ ("sort" \in DOMAIN o => o.sort \in Sorts)
  /\ "models" \in DOMAIN o => \A k \in DOMAIN o.models : o.models[k] \subseteq Words

InputsOK ==
  /\ NULL \notin Int /\ NULL \notin [closeness : Int, label : BOOLEAN]
  /\ {SIMILAR_PRICE_SPREAD, Now} \subseteq Int /\ {MAX_CANDIDATES, MAX_RESULTS} \subseteq Nat
  /\ TableOK /\ CatalogOK /\ ScalesOK
  /\ \A q \in Queries : QueryOK(q)
  /\ \A i \in LLMIntents : BoundsOK(i) /\ FieldsOK(i)
  /\ \A o \in Overrides : OverridesOK(o)

ASSUME SearchAssumption == InputsOK

VARIABLES stage, query, overrides, exclude, intent, memo, results
vars == <<stage, query, overrides, exclude, intent, memo, results>>

MIN_JALALI_YEAR == 1300
MIN_CATALOG_SIMILARITY == 600
MIN_TEXT_SIMILARITY == 300
CHEAP_DIFF == -50

-----------------------------------------------------------------------------
\* The rules parser: a query is a sequence of clauses, each recognised once.

First(clauses, test(_)) ==
  LET hits == {k \in DOMAIN clauses : test(clauses[k])}
  IN IF hits = {} THEN NULL ELSE clauses[Smallest(hits)]

IsMileage(c) == c.unit = "km" \/ (c.thousand /\ c.unit = NULL)

\* «under 50 thousand km»; without the word for kilometres it is no mileage limit.
RuleKmMax(clauses) ==
  LET limit == First(clauses, LAMBDA c : c.kind = "limit" /\ c.unit = "km")
      low == First(clauses, LAMBDA c : c.kind = "lowMileage")
  IN IF limit # NULL THEN (IF limit.value < 1000 THEN 1000 * limit.value ELSE limit.value)
     ELSE IF low # NULL THEN 90000 ELSE NULL

\* The first limit that is no mileage, in millions; a bare number below 5 is billions.
RulePriceMax(clauses) ==
  LET limit == First(clauses, LAMBDA c : c.kind = "limit" /\ ~IsMileage(c))
      billions == limit.unit = "billion" \/ (limit.unit = NULL /\ limit.value < 5)
  IN IF limit # NULL THEN (IF billions THEN 1000 * limit.value ELSE limit.value)
     ELSE IF First(clauses, LAMBDA c : c.kind = "oneBillion") # NULL THEN 1000 ELSE NULL

RuleYears(clauses) ==
  LET c == First(clauses, LAMBDA x : x.kind = "year")
      year == CASE c.value >= 100 -> c.value
                [] c.value < 100 /\ c.value >= 50 -> 1300 + c.value
                [] OTHER -> 1400 + c.value
  IN IF c = NULL THEN <<NULL, NULL>> ELSE <<year, IF c.orNewer THEN NULL ELSE year>>

\* The longest city of the catalog that is named, and the words nobody claimed.
RulesIntent(clauses) ==
  LET city == First(clauses, LAMBDA c : c.kind = "city")
      gear == First(clauses, LAMBDA c : c.kind = "gearbox")
      words == UNION {c.words : c \in {x \in ToSet(clauses) : x.kind = "words"}}
  IN [NoIntent EXCEPT
        !.vehicles = IF words = {} THEN <<>> ELSE <<[brand |-> {}, model |-> words, trim |-> {}]>>,
        !.yearMin = RuleYears(clauses)[1], !.yearMax = RuleYears(clauses)[2],
        !.priceMax = RulePriceMax(clauses), !.kmMax = RuleKmMax(clauses),
        !.cities = IF city = NULL THEN {} ELSE {city.name},
        !.gearbox = IF gear = NULL THEN NULL ELSE gear.value,
        !.onlyBelow = First(clauses, LAMBDA c : c.kind = "below") # NULL]

-----------------------------------------------------------------------------
\* SearchIntent's checks, and the filter sheet laid over what was parsed.

Ordered(low, high) == low # NULL /\ high # NULL => low <= high

CheckRanges(i) ==
  /\ \A bound \in {i.priceMin, i.priceMax, i.kmMin, i.kmMax} \ {NULL} : bound > 0
  /\ \A year \in {i.yearMin, i.yearMax} \ {NULL} : year \in MIN_JALALI_YEAR..NewestYear
  /\ Ordered(i.yearMin, i.yearMax)
  /\ Ordered(i.priceMin, i.priceMax)
  /\ Ordered(i.kmMin, i.kmMax)

\* The fields of one record, and those of another that the first does not have.
Over(record, other) ==
  [f \in DOMAIN record \cup DOMAIN other |-> IF f \in DOMAIN record THEN record[f] ELSE other[f]]

\* An override is a partial intent; `year` stands for both ends, `models` for vehicles.
ApplyTo(o, i) ==
  LET year == IF "year" \in DOMAIN o THEN [yearMin |-> o.year, yearMax |-> o.year] ELSE <<>>
      vehicles == IF "models" \in DOMAIN o
                    THEN [vehicles |-> [k \in DOMAIN o.models |->
                            [brand |-> {}, model |-> o.models[k], trim |-> {}]]]
                    ELSE <<>>
      stated == [f \in DOMAIN o \ {"year", "models"} |-> o[f]]
  IN Over(stated, Over(year, Over(vehicles, i)))

-----------------------------------------------------------------------------
\* intent_resolver: mentions to catalog targets, what is left to text.

MentionQueries(mention) == <<Said(mention), mention.model \cup mention.trim>>

\* catalog.search with a limit of one: the most similar entry, the larger first.  A
\* query is tried in both scripts; of an entry WordSimilarity is the better of the two.
BestMatch(words, category) ==
  LET score(e) == WordSimilarity(words, e.words)
      found == {e \in Catalog : /\ score(e) >= MIN_CATALOG_SIMILARITY
                                /\ category \in {NULL, e.category}}
  IN IF found = {} THEN NULL
     ELSE CHOOSE e \in found : \A f \in found :
            score(f) < score(e) \/ (score(f) = score(e) /\ f.count <= e.count)

\* How specific the user was, judged by the words used.
InferLevel(words, entry) ==
  IF words \subseteq entry.brand THEN "brand"
  ELSE IF words \subseteq entry.model THEN "model" ELSE "trim"

ToTarget(words, entry) ==
  LET level == InferLevel(words, entry)
  IN [level |-> level, brand |-> entry.brand,
      model |-> IF level = "brand" THEN NULL ELSE entry.model,
      trim |-> IF level = "trim" THEN entry.trim ELSE NULL]

ResolveMention(mention, category) ==
  LET words == First(MentionQueries(mention), LAMBDA q : q # {} /\ BestMatch(q, category) # NULL)
  IN IF words = NULL THEN NULL ELSE ToTarget(words, BestMatch(words, category))

Targets(i) == {ResolveMention(m, i.category) : m \in ToSet(i.vehicles)} \ {NULL}

TextOf(i) ==
  i.text \cup UNION {Said(m) :
    m \in {m \in ToSet(i.vehicles) : ResolveMention(m, i.category) = NULL}}

RankingQuery(i) ==
  [targets |-> Targets(i), yearMin |-> i.yearMin, yearMax |-> i.yearMax,
   priceMin |-> i.priceMin, priceMax |-> i.priceMax, kmMin |-> i.kmMin, kmMax |-> i.kmMax,
   cities |-> {c \in Cities : c.name \in i.cities}, gearbox |-> {i.gearbox} \ {NULL},
   fuel |-> {i.fuel} \ {NULL}, colors |-> i.colors, text |-> TextOf(i), sort |-> i.sort]

\* Python's round() of percent% of a bound.
Percent(bound, percent) ==
  LET twice == 2 * ((bound * percent) % 100)
      floor == (bound * percent) \div 100
  IN IF twice > 100 \/ (twice = 100 /\ floor % 2 = 1) THEN floor + 1 ELSE floor

\* Mutant: the bound as stated, without its tolerance.
Widened_Stated(bound, percent) == bound

Widened(bound, percent) == IF bound = NULL THEN NULL ELSE Percent(bound, percent)
Shifted(bound, years) == IF bound = NULL THEN NULL ELSE bound + years

\* The filter of the candidate query: bounds widened by what still scores.
GuardRails(i) ==
  [category |-> i.category, brands |-> {t.brand : t \in Targets(i)}, text |-> TextOf(i),
   sources |-> i.sources, priceTypes |-> i.priceTypes, documents |-> i.documents,
   onlyBelow |-> i.onlyBelow,
   priceFloor |-> Widened(i.priceMin, 100 - PRICE_TOLERANCE),
   priceCeiling |-> Widened(i.priceMax, 100 + PRICE_TOLERANCE),
   kmFloor |-> Widened(i.kmMin, 100 - KM_TOLERANCE),
   kmCeiling |-> Widened(i.kmMax, 100 + KM_TOLERANCE),
   yearFloor |-> Shifted(i.yearMin, -YEAR_TOLERANCE),
   yearCeiling |-> Shifted(i.yearMax, YEAR_TOLERANCE)]

-----------------------------------------------------------------------------
\* The candidate query.  A suspect price is hidden; NULL passes every bound, and
\* an ad that did not say its price type or documents passes those filters.

TrustedPrice(row) == IF row.suspect THEN NULL ELSE row.price

Within(value, floor, ceiling) ==
  \/ value = NULL
  \/ /\ floor = NULL \/ value >= floor
     /\ ceiling = NULL \/ value <= ceiling

Conditions(row, f) ==
  /\ Within(TrustedPrice(row), f.priceFloor, f.priceCeiling)
  /\ Within(row.km, f.kmFloor, f.kmCeiling)
  /\ Within(row.year, f.yearFloor, f.yearCeiling)
  /\ f.category \in {NULL, row.category}
  /\ f.sources = {} \/ row.source \in f.sources
  /\ f.priceTypes = {} \/ row.priceType \in f.priceTypes \cup {NULL}
  /\ f.documents = {} \/ row.documents \in f.documents \cup {NULL}
  /\ IF f.brands # {} THEN row.brand \in f.brands
     ELSE f.text = {} \/ WordSimilarity(f.text, row.title) >= MIN_TEXT_SIMILARITY
  /\ f.onlyBelow => row.diff # NULL /\ row.diff <= CHEAP_DIFF

\* The row as the ranker sees it: its own place, else the city's.
Candidate(id, text) ==
  LET row == Listings[id]
      city == CHOOSE c \in Cities : c.name = row.city
  IN Over([id |-> id, price |-> TrustedPrice(row),
           place |-> IF row.place # NULL THEN row.place ELSE city.place,
           similarity |-> IF text = {} THEN NULL ELSE WordSimilarity(text, row.title)], row)

\* find_candidates: the best deals first when there are more than the limit.
FindCandidates(filter, excluded) ==
  LET found == {id \in DOMAIN Listings \ excluded : Conditions(Listings[id], filter)}
      deal(id) == IF Listings[id].deal = NULL THEN -1 ELSE Listings[id].deal
      place(id) == Cardinality({o \in found : \/ deal(o) > deal(id)
                                              \/ deal(o) = deal(id) /\ o < id})
  IN {Candidate(id, filter.text) : id \in {id \in found : place(id) < MAX_CANDIDATES}}

Upto(s, n) == SubSeq(s, 1, Smallest({Len(s), n}))

\* SearchService.rank, without its cache.
Results(i, excluded) ==
  Upto(Rank(RankingQuery(i), FindCandidates(GuardRails(i), excluded), Now), MAX_RESULTS)

\* _similar_intent: the listing's own trim, year, price band and city.
SimilarIntent(row) ==
  LET price == TrustedPrice(row)
  IN [NoIntent EXCEPT
        !.category = row.category, !.yearMin = row.year, !.yearMax = row.year,
        !.vehicles = IF row.trim = NULL THEN <<>>
                     ELSE <<[brand |-> {}, model |-> {}, trim |-> row.trim]>>,
        !.priceMin = Widened(price, 100 - SIMILAR_PRICE_SPREAD),
        !.priceMax = Widened(price, 100 + SIMILAR_PRICE_SPREAD),
        !.cities = {row.city}, !.text = IF row.trim = NULL THEN row.title ELSE {}]

-----------------------------------------------------------------------------
\* facet_service: the search as yes/no conditions, one dimension left out.

\* Mutant: the counts use the widened bounds of the ranking.
ExactFilter_Widened(i) == GuardRails(i)

ExactFilter(i) ==
  [GuardRails(i) EXCEPT
     !.priceFloor = i.priceMin, !.priceCeiling = i.priceMax, !.kmFloor = i.kmMin,
     !.kmCeiling = i.kmMax, !.yearFloor = i.yearMin, !.yearCeiling = i.yearMax]

Scope(i) == [filter |-> ExactFilter(i), models |-> {t.model : t \in Targets(i)} \ {NULL},
             cities |-> {c.name : c \in RankingQuery(i).cities}, gearbox |-> i.gearbox]

InScope(scope, counted) ==
  LET filter == [scope.filter EXCEPT
                   !.category = IF counted = "category" THEN NULL ELSE @,
                   !.sources = IF counted = "source" THEN {} ELSE @]
  IN {id \in DOMAIN Listings :
        LET row == Listings[id] IN
        /\ Conditions(row, filter)
        /\ counted = "model" \/ scope.models = {} \/ row.model \in scope.models
        /\ counted = "city" \/ scope.cities = {} \/ row.city \in scope.cities
        /\ counted = "gearbox" \/ scope.gearbox \in {NULL, row.gearbox}}

\* count_facet: listings per value (the limits on the options listed are left out).
CountFacet(scope, dimension, value) ==
  Cardinality({id \in InScope(scope, dimension) : Listings[id][dimension] = value})

Unbounded(filter) ==
  [filter EXCEPT !.priceFloor = NULL, !.priceCeiling = NULL, !.kmFloor = NULL,
                 !.kmCeiling = NULL, !.yearFloor = NULL, !.yearCeiling = NULL]

\* facet_ranges: the spread of one column with the search's own bounds left out.
FacetRange(scope, field) ==
  LET ids == InScope([scope EXCEPT !.filter = Unbounded(@)], NULL)
      values == {Candidate(id, {})[field] : id \in ids} \ {NULL}
  IN IF values = {} THEN NULL ELSE <<Smallest(values), Largest(values)>>

-----------------------------------------------------------------------------
\* A request: parsed from the memo, the model or the rules; filtered; ranked.

Init ==
  /\ stage = "idle" /\ query = <<>> /\ overrides = <<>> /\ exclude = {}
  /\ intent = NoIntent /\ memo = <<>> /\ results = <<>>

Ask(q, o) ==
  /\ stage = "idle"
  /\ stage' = "parse" /\ query' = q /\ overrides' = o /\ exclude' = {}
  /\ UNCHANGED <<intent, memo, results>>

Parsed(i) == stage' = "filter" /\ intent' = i /\ UNCHANGED <<query, overrides, exclude, results>>

ParseCached ==
  /\ stage = "parse" /\ query \in DOMAIN memo
  /\ Parsed(memo[query])
  /\ UNCHANGED memo

\* An answer of the model passes SearchIntent's checks before parse sees it.
ParseByLLM(i) ==
  /\ stage = "parse" /\ query \notin DOMAIN memo \cup {<<>>}
  /\ CheckRanges(i) /\ Cardinality(DOMAIN memo) < MaxMemo
  /\ Parsed(i)
  /\ memo' = Over([q \in {query} |-> i], memo)

Rejected == stage' = "rejected" /\ UNCHANGED <<query, overrides, exclude, intent, results>>

\* Nothing typed, no model, an outage or a timeout; the outcome is not remembered.
ParseByRules ==
  /\ stage = "parse" /\ query \notin DOMAIN memo
  /\ IF CheckRanges(RulesIntent(query)) THEN Parsed(RulesIntent(query)) ELSE Rejected
  /\ UNCHANGED memo

Filter ==
  LET merged == ApplyTo(overrides, intent)
  IN /\ stage = "filter"
     /\ IF CheckRanges(merged)
          THEN /\ stage' = "rank" /\ intent' = merged
               /\ UNCHANGED <<query, overrides, exclude, results>>
          ELSE Rejected
     /\ UNCHANGED memo

\* get_similar: no words, the listing's own intent, itself left out.
Similar(id) ==
  /\ stage = "idle"
  /\ stage' = IF CheckRanges(SimilarIntent(Listings[id])) THEN "rank" ELSE "rejected"
  /\ intent' = SimilarIntent(Listings[id]) /\ exclude' = {id}
  /\ query' = <<>> /\ overrides' = <<>>
  /\ UNCHANGED <<memo, results>>

RankIt ==
  /\ stage = "rank"
  /\ stage' = "done" /\ results' = Results(intent, exclude)
  /\ UNCHANGED <<query, overrides, exclude, intent, memo>>

Answer ==
  /\ stage \in {"done", "rejected"}
  /\ stage' = "idle" /\ query' = <<>> /\ overrides' = <<>> /\ exclude' = {}
  /\ intent' = NoIntent /\ results' = <<>>
  /\ UNCHANGED memo

Expire ==
  /\ stage = "idle" /\ memo # <<>>
  /\ memo' = <<>>
  /\ UNCHANGED <<stage, query, overrides, exclude, intent, results>>

Next ==
  \/ \E q \in Queries, o \in Overrides : Ask(q, o)
  \/ ParseCached \/ ParseByRules \/ Filter \/ RankIt \/ Answer \/ Expire
  \/ \E i \in LLMIntents : ParseByLLM(i)
  \/ \E id \in DOMAIN Listings : Similar(id)

Spec == Init /\ [][Next]_vars

-----------------------------------------------------------------------------
\* A listing whose stated price, kilometres or year still scores is not lost to the
\* candidate query's bounds, whatever their rounding (CandidateFilter's docstring).
GuardRailsKeepNearMisses ==
  stage = "done" =>
    LET filter == GuardRails(intent)
        asked == RankingQuery(intent)
        scores(id) == Scores(asked, Candidate(id, filter.text))
        near(id) == \A c \in {"price", "km", "year"} :
                      scores(id)[c] = NULL \/ scores(id)[c].closeness > MISS
    IN \A id \in DOMAIN Listings \ exclude :
         Conditions(Listings[id], Unbounded(filter)) /\ near(id) => Conditions(Listings[id], filter)

\* Of two results sorted by relevance, one that is nowhere further from what was
\* asked, and no worse a deal and no older, is not below the other (rank, _sort_key).
CloserNeverBelow ==
  stage = "done" /\ intent.sort = "relevance" =>
    LET asked == RankingQuery(intent)
        shownAt(p) == LET row == Candidate(results[p].id, asked.text)
                      IN [place |-> p, rank |-> results[p].rank, row |-> row,
                          scores |-> Scores(asked, row)]
        shown == {shownAt(p) : p \in DOMAIN results}
        known == {s \in shown : s.row.deal # NULL /\ s.row.posted # NULL}
    IN \A s, t \in known :
         /\ \A c \in Stated(s.scores) : s.scores[c].closeness >= t.scores[c].closeness
         /\ s.row.deal >= t.row.deal /\ s.row.posted >= t.row.posted
         => s.place <= t.place \/ s.rank = t.rank

\* What the city panel counts for a city is what a search for that city finds without a
\* miss, a silent ad counting as none, and its prices lie in the panel's range: two
\* queries that share only their conditions agree.  For searches by whole models; a
\* count ignores fuel and colours and cannot mix levels (scope_of, count_facet).
FacetsAgreeWithSearch ==
  LET scope == Scope(intent)
      countable == /\ \A t \in Targets(intent) : t.level = "model"
                   /\ scope.filter.text = {} /\ intent.fuel = NULL /\ intent.colors = {}
      silent(row, c) == c \in {"price", "km", "year"} /\ row[c] = NULL
      fits(asked, row) ==
        LET scores == Scores(asked, row)
        IN \A c \in Stated(scores) : scores[c].closeness = EXACT \/ silent(row, c)
      prices == FacetRange(scope, "price")
  IN stage = "done" /\ exclude = {} /\ countable =>
       \A city \in {c.name : c \in Cities} :
         LET i == [intent EXCEPT !.cities = {city}]
             asked == RankingQuery(i)
             shown == {Candidate(r.id, {}) : r \in ToSet(Results(i, {}))}
             found == {row \in shown : fits(asked, row)}
         IN /\ Cardinality(found) = CountFacet(scope, "city", city)
            /\ scope.cities \in {{}, {city}} =>
                 \A row \in found : row.price = NULL \/ row.price \in prices[1]..prices[2]
=============================================================================
