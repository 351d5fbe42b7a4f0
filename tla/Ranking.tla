------------------------------- MODULE Ranking -------------------------------
(***************************************************************************)
(* The ranker of src/backend/ranking: one closeness per criterion the user *)
(* stated, their weighted mean, the tiers and the order.  Closeness and     *)
(* shares are thousandths, weights tenths; a linear decay is rounded so that *)
(* it is 0, and EXACT, exactly when the code's is.  Labels keep only their   *)
(* criterion.                                                                *)
(***************************************************************************)
EXTENDS Integers, FiniteSets, Sequences, SequencesExt

CONSTANTS
  NULL,
  Distance(_, _),      \* kilometres between two places (haversine)
  FreshnessDecay(_)    \* exp(-age / 14), in thousandths

EXACT == 1000
MISS == 0
MIN_MATCH_SCORE == 400
UNKNOWN_CLOSENESS == 500
NEUTRAL == 500                 \* neutral_deal and neutral_fresh
SAME_MODEL_OTHER_TRIM == 800
SAME_BRAND_OTHER_MODEL == 300
PRICE_TOLERANCE == 25          \* percent of the bound
KM_TOLERANCE == 50
YEAR_TOLERANCE == 5
CITY_RADIUS_KM == 300
OTHER_CITY_CEILING == 900
MAX_LABELS == 2

Criteria == << "vehicle", "price", "year", "city", "km", "gearbox", "fuel", "text", "color" >>
Weight == [vehicle |-> 30, price |-> 25, year |-> 20, city |-> 15, km |-> 15,
           gearbox |-> 10, fuel |-> 10, text |-> 10, color |-> 5]

Largest(S) == CHOOSE x \in S : \A y \in S : y <= x
Smallest(S) == CHOOSE x \in S : \A y \in S : x <= y

-----------------------------------------------------------------------------
\* A score is [closeness, label]; NULL when the criterion was not stated.

Score(closeness, label) == [closeness |-> closeness, label |-> label]
Unlabelled(closeness) == Score(closeness, FALSE)

\* The tolerance is num / den.  What is outside by the least is short of exact.
LinearDecay(excess, num, den) ==
  LET left == EXACT - (EXACT * excess * den) \div num
  IN IF num <= 0 THEN MISS
     ELSE IF excess > 0 /\ left = EXACT THEN EXACT - 1 ELSE Largest({MISS, left})

TargetCloseness(target, candidate) ==
  CASE candidate.brand # target.brand -> MISS
    [] candidate.brand = target.brand /\ target.level = "brand" -> EXACT
    [] candidate.brand = target.brand /\ target.level # "brand" ->
         IF candidate.model # target.model THEN SAME_BRAND_OTHER_MODEL
         ELSE IF target.level = "model" \/ candidate.trim = target.trim THEN EXACT
         ELSE SAME_MODEL_OTHER_TRIM

VehicleScore(query, candidate) ==
  LET closeness == Largest({TargetCloseness(t, candidate) : t \in query.targets})
      label == \/ closeness = SAME_MODEL_OTHER_TRIM /\ candidate.trim # NULL
               \/ closeness < SAME_MODEL_OTHER_TRIM /\ candidate.model # NULL
  IN IF query.targets = {} THEN NULL ELSE Score(closeness, label)

\* Price, kilometres and year: outside a bound the closeness decays, inside it
\* is exact, and a listing that does not say is neither.
RangeScore(low, high, value, decayLow(_), decayHigh(_), unknownLabel) ==
  CASE low = NULL /\ high = NULL -> NULL
    [] {low, high} # {NULL} /\ value = NULL -> Score(UNKNOWN_CLOSENESS, unknownLabel)
    [] OTHER -> IF high # NULL /\ value > high THEN Score(decayHigh(value - high), TRUE)
                ELSE IF low # NULL /\ value < low THEN Score(decayLow(low - value), TRUE)
                ELSE Unlabelled(EXACT)

PriceScore(query, candidate) ==
  RangeScore(query.priceMin, query.priceMax, candidate.price,
    LAMBDA gap : LinearDecay(gap, query.priceMin * PRICE_TOLERANCE, 100),
    LAMBDA gap : LinearDecay(gap, query.priceMax * PRICE_TOLERANCE, 100), TRUE)

KmScore(query, candidate) ==
  RangeScore(query.kmMin, query.kmMax, candidate.km,
    LAMBDA gap : LinearDecay(gap, query.kmMin * KM_TOLERANCE, 100),
    LAMBDA gap : LinearDecay(gap, query.kmMax * KM_TOLERANCE, 100), TRUE)

YearScore(query, candidate) ==
  RangeScore(query.yearMin, query.yearMax, candidate.year,
    LAMBDA gap : LinearDecay(gap, YEAR_TOLERANCE, 1),
    LAMBDA gap : LinearDecay(gap, YEAR_TOLERANCE, 1), FALSE)

\* A named city is exact; elsewhere the nearest of the cities whose place is known.
CityScore(query, candidate) ==
  LET places == {c.place : c \in query.cities} \ {NULL}
      nearest == Smallest({Distance(p, candidate.place) : p \in places})
  IN CASE query.cities = {} -> NULL
       [] \E c \in query.cities : c.name = candidate.city -> Unlabelled(EXACT)
       [] OTHER -> IF candidate.place = NULL \/ places = {}
                     THEN Score(MISS, TRUE)
                     ELSE Score(Smallest({OTHER_CITY_CEILING,
                                          LinearDecay(nearest, CITY_RADIUS_KM, 1)}), TRUE)

\* Gearbox, fuel and colour: one of the wanted values, unknown, or a miss.
ChoiceScore(wanted, value) ==
  CASE wanted = {} -> NULL
    [] wanted # {} /\ value = NULL -> Unlabelled(UNKNOWN_CLOSENESS)
    [] wanted # {} /\ value # NULL ->
         IF value \in wanted THEN Unlabelled(EXACT) ELSE Score(MISS, TRUE)

TextScore(query, candidate) ==
  IF query.text = {} THEN NULL
  ELSE Unlabelled(IF candidate.similarity = NULL THEN MISS ELSE candidate.similarity)

\* CLOSENESS_FUNCTIONS, by criterion.
Scores(query, candidate) ==
  [vehicle |-> VehicleScore(query, candidate), price |-> PriceScore(query, candidate),
   year |-> YearScore(query, candidate), city |-> CityScore(query, candidate),
   km |-> KmScore(query, candidate), gearbox |-> ChoiceScore(query.gearbox, candidate.gearbox),
   fuel |-> ChoiceScore(query.fuel, candidate.fuel), text |-> TextScore(query, candidate),
   color |-> ChoiceScore(query.colors, candidate.color)]

-----------------------------------------------------------------------------
Stated(scores) == {c \in DOMAIN scores : scores[c] # NULL}

\* Thousandths of a tenth: the weighted mean of the stated criteria.
Match(scores) ==
  LET stated == Stated(scores)
  IN IF stated = {} THEN NULL
     ELSE MapThenSumSet(LAMBDA c : Weight[c] * scores[c].closeness, stated)
            \div MapThenSumSet(LAMBDA c : Weight[c], stated)

\* Mutant: a score of zero is taken for no score.
Deal_Falsy(candidate) == IF candidate.deal \in {NULL, 0} THEN NEUTRAL ELSE 10 * candidate.deal

Deal(candidate) == IF candidate.deal = NULL THEN NEUTRAL ELSE 10 * candidate.deal

\* Age in days, never negative: the clock is the newest fetch of the table.
Age(candidate, now) == IF candidate.posted > now THEN 0 ELSE now - candidate.posted

Freshness(candidate, now) ==
  IF candidate.posted = NULL THEN NEUTRAL ELSE FreshnessDecay(Age(candidate, now))

\* _combine, to RANK_PRECISION: ten-thousandths.
Combine(match, deal, fresh) ==
  (IF match = NULL THEN 67 * deal + 33 * fresh ELSE 55 * match + 30 * deal + 15 * fresh) \div 10

IsExact(scores) == \A c \in Stated(scores) : scores[c].closeness = EXACT
IsOffModel(scores) ==
  scores.vehicle # NULL /\ scores.vehicle.closeness < SAME_MODEL_OTHER_TRIM

\* _labels: the largest losses first, the order of the criteria settles ties.
Labels(scores) ==
  LET loss(c) == Weight[c] * (EXACT - scores[c].closeness)
      missed == SelectSeq(Criteria, LAMBDA c : scores[c] # NULL /\ scores[c].closeness < EXACT)
      place(k) == Cardinality({m \in DOMAIN missed :
                    \/ loss(missed[m]) > loss(missed[k])
                    \/ loss(missed[m]) = loss(missed[k]) /\ m < k})
      ordered == [p \in DOMAIN missed |-> missed[CHOOSE k \in DOMAIN missed : place(k) = p - 1]]
      named == SelectSeq(ordered, LAMBDA c : scores[c].label)
  IN SubSeq(named, 1, Smallest({MAX_LABELS, Len(named)}))

Ranked(query, candidate, now) ==
  LET scores == Scores(query, candidate)
      match == Match(scores)
  IN [id |-> candidate.id, match |-> match, exact |-> IsExact(scores),
      offModel |-> IsOffModel(scores),
      rank |-> Combine(match, Deal(candidate), Freshness(candidate, now)),
      labels |-> Labels(scores)]

PassesCutoff(ranked) == ranked.match = NULL \/ ranked.match >= MIN_MATCH_SCORE

-----------------------------------------------------------------------------
\* The order: the tiers, then the sort the user chose, then relevance.

Missing == 1000000000          \* _MISSING_LAST

ExplicitValue(sort, candidate) ==
  CASE sort = "price" -> IF candidate.price = NULL THEN Missing ELSE candidate.price
    [] sort = "km" -> IF candidate.km = NULL THEN Missing ELSE candidate.km
    [] sort = "newest" -> IF candidate.posted = NULL THEN 0 ELSE -candidate.posted
    [] sort = "deal" -> IF candidate.deal = NULL THEN 1 ELSE -candidate.deal

Flag(b) == IF b THEN 1 ELSE 0

SortKey(sort, ranked, candidate) ==
  LET tier == <<Flag(~ranked.exact), Flag(ranked.offModel)>>
      relevance == <<-ranked.rank, IF candidate.posted = NULL THEN 0 ELSE -candidate.posted,
                     ranked.id>>
  IN IF sort = "relevance" THEN tier \o relevance
     ELSE tier \o <<ExplicitValue(sort, candidate)>> \o relevance

LexLess(a, b) ==
  \E k \in DOMAIN a : a[k] < b[k] /\ \A m \in 1..(k - 1) : a[m] = b[m]

\* ListingRanker.rank: the candidates above the cut-off, by ascending key.
Rank(query, candidates, now) ==
  LET keyed(c) == [listing |-> Ranked(query, c, now),
                   key |-> SortKey(query.sort, Ranked(query, c, now), c)]
      kept == {k \in {keyed(c) : c \in candidates} : PassesCutoff(k.listing)}
      placed == {<<Cardinality({m \in kept : LexLess(m.key, k.key)}) + 1, k.listing>> : k \in kept}
  IN [p \in 1..Cardinality(kept) |-> (CHOOSE m \in placed : m[1] = p)[2]]
=============================================================================
