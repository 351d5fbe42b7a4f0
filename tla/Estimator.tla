------------------------------ MODULE Estimator ------------------------------
(***************************************************************************)
(* The price estimate and the deal score of src/backend/ranking/estimator.py *)
(* and the two services that publish them.  A set of rows is a function    *)
(* `rows` from listings to records; a price group is the set of listings   *)
(* it came from.  Factors are thousandths, est_price is in hundredths,     *)
(* diff_pct and the raw score in tenths; quotients are truncated to these. *)
(***************************************************************************)
EXTENDS Integers, FiniteSets, Sequences, SequencesExt

CONSTANTS
  NULL,              \* Python's None, SQL's NULL
  CatchAll,          \* the trims that contain the marker of "other"
  BodyFactors,       \* body condition -> factor in hundredths
  ESTIMATED_CATEGORIES,
  MIN_COMPARABLES

ASSUME ComparablesAssumption == MIN_COMPARABLES \in Nat /\ MIN_COMPARABLES >= 2

NEAR_YEAR_SPAN == 1
FAR_YEAR_SPAN == 2
Thousand == 1000

Clamp(value, low, high) ==
  IF value < low THEN low ELSE IF value > high THEN high ELSE value

\* Python's round() of num / den, den > 0: halves go to the even neighbour.
RoundDiv(num, den) ==
  LET q == num \div den
      twice == 2 * (num % den)
  IN IF twice > den \/ (twice = den /\ q % 2 = 1) THEN q + 1 ELSE q

\* The rows of one table, and those of another for the keys the first does not have.
Over(table, rows) ==
  [k \in DOMAIN table \cup DOMAIN rows |-> IF k \in DOMAIN table THEN table[k] ELSE rows[k]]

-----------------------------------------------------------------------------
\* statistics.median and statistics.quantiles over a set of listings, by field.

\* The values of the set in order, each as often as it occurs: the k-th is the least one
\* that at least k of the listings do not exceed.
SortedBy(ids, value) ==
  LET upTo(v) == Cardinality({i \in ids : value[i] <= v})
  IN [k \in 1..Cardinality(ids) |-> Min({v \in {value[i] : i \in ids} : upTo(v) >= k})]

\* Twice the median of a sorted sequence.
Median2(sorted) ==
  LET n == Len(sorted) IN sorted[(n + 1) \div 2] + sorted[(n + 2) \div 2]

\* The k-th of the n - 1 cut points, times n; method="exclusive".
Quantile(sorted, k, n) ==
  LET position == k * (Len(sorted) + 1)
      j == Clamp(position \div n, 1, Len(sorted) - 1)
      delta == position - j * n
  IN sorted[j] * (n - delta) + sorted[j + 1] * delta

-----------------------------------------------------------------------------
\* Which rows can be compared, and which of them make the market.

IsComparable(row) ==
  /\ row.category \in ESTIMATED_CATEGORIES
  /\ NULL \notin {row.price, row.year, row.trim, row.model}
  /\ row.trim \notin CatchAll

IsBaseline(row) == IsComparable(row) /\ row.source = "divar"

InsuranceFactor(months) ==
  IF months = NULL THEN Thousand ELSE Thousand + 2 * (months - 6)

\* 1 - 0.08 * ratio, the ratio to the expected kilometres clamped to -0.5 .. 1.
KmFactorOf(km, expected2) ==
  IF km = NULL \/ expected2 \in {NULL, 0}
    THEN Thousand
    ELSE Thousand - Clamp((80 * (2 * km - expected2)) \div expected2, -40, 80)

\* Twice the median kilometres of the rows of one category and age.
ExpectedKm2(rows, category, year) ==
  LET peers == {i \in DOMAIN rows : /\ rows[i].category = category
                                    /\ rows[i].year = year
                                    /\ rows[i].km # NULL}
  IN IF Cardinality(peers) < MIN_COMPARABLES
       THEN NULL
       ELSE Median2(SortedBy(peers, [i \in peers |-> rows[i].km]))

KmFactor(rows, row) ==
  IF row.year = NULL
    THEN Thousand
    ELSE KmFactorOf(row.km, ExpectedKm2(rows, row.category, row.year))

-----------------------------------------------------------------------------
\* The chain of bases, most specific first, and the prices each one collects.

Attempts == << [by |-> "trim",  span |-> 0,              basis |-> "trim_year"],
               [by |-> "trim",  span |-> NEAR_YEAR_SPAN, basis |-> "trim_near_year"],
               [by |-> "model", span |-> 0,              basis |-> "model_year"],
               [by |-> "model", span |-> FAR_YEAR_SPAN,  basis |-> "model_near_year"] >>

Collect(rows, row, attempt) ==
  {i \in DOMAIN rows :
     /\ IsBaseline(rows[i])
     /\ rows[i].category = row.category
     /\ rows[i][attempt.by] = row[attempt.by]
     /\ rows[i].year \in (row.year - attempt.span)..(row.year + attempt.span)}

\* prices.remove(price): one occurrence of the price, whoever asked it.
RemoveOne(rows, group, price) ==
  group \ {CHOOSE i \in group : rows[i].price = price}

\* Mutant: only the groups by trim leave the listing out.
Peers_KeptInModel(rows, row, attempt, leaveOut) ==
  LET group == Collect(rows, row, attempt)
  IN IF leaveOut /\ attempt.by = "trim" THEN RemoveOne(rows, group, row.price) ELSE group

Peers(rows, row, attempt, leaveOut) ==
  LET group == Collect(rows, row, attempt)
  IN IF leaveOut THEN RemoveOne(rows, group, row.price) ELSE group

NoBasis == [basis |-> "none", prices |-> <<>>]

Based(rows, row, attempt, leaveOut) ==
  [basis |-> attempt.basis,
   prices |-> SortedBy(Peers(rows, row, attempt, leaveOut),
                       [i \in DOMAIN rows |-> rows[i].price])]

\* The first attempt with enough comparables: its basis and sorted prices.
BasisOf(rows, row, leaveOut) ==
  LET found == SelectInSeq(Attempts, LAMBDA attempt :
                 Cardinality(Peers(rows, row, attempt, leaveOut)) >= MIN_COMPARABLES)
  IN IF found = 0 THEN NoBasis ELSE Based(rows, row, Attempts[found], leaveOut)

\* A listing of the table: comparable rows only, its own price left out.
BasePrice(rows, row) ==
  IF IsComparable(row) THEN BasisOf(rows, row, IsBaseline(row)) ELSE NoBasis

-----------------------------------------------------------------------------
\* The estimate of one listing of the table (estimate_all).

\* Two factors in thousandths and twice a median, as hundredths.
Scaled(median2, factors) == (((median2 * factors.km) \div 20) * factors.insurance) \div Thousand

Factors(rows, row) ==
  [km |-> KmFactor(rows, row), insurance |-> InsuranceFactor(row.insurance)]

\* Mutant: the distance from the estimate counts, on either side of it.
DealScore_Distance(diff10, kmFactor, body) ==
  RoundDiv(Clamp(720 - (IF diff10 < 0 THEN -diff10 ELSE diff10), 50, 990), 10)

DealScore(diff10, kmFactor, body) ==
  LET bodyTerm == IF body = NULL THEN 0 ELSE 9 * (BodyFactors[body] - 92)
      raw == 720 - diff10 + (12 * (kmFactor - Thousand)) \div 10 + bodyTerm
  IN RoundDiv(Clamp(raw, 50, 990), 10)

NoEstimate == [est |-> NULL, basis |-> "none", sample |-> 0, diff |-> NULL,
               score |-> NULL, suspect |-> FALSE]

IsSuspect(diff10) == diff10 < -400 \/ diff10 > 1000

\* A price too far from its estimate is doubted, not scored.
Judged(row, base, factors, est, diff10) ==
  [est |-> est, basis |-> base.basis, sample |-> Len(base.prices),
   diff |-> IF IsSuspect(diff10) THEN NULL ELSE diff10,
   score |-> IF IsSuspect(diff10) THEN NULL ELSE DealScore(diff10, factors.km, row.body),
   suspect |-> IsSuspect(diff10)]

Against(row, base, factors, est) ==
  Judged(row, base, factors, est, ((100 * row.price - est) * Thousand) \div est)

EstimateOn(row, base, factors) ==
  IF base = NoBasis THEN NoEstimate
  ELSE Against(row, base, factors, Scaled(Median2(base.prices), factors))

Estimate(rows, row) == EstimateOn(row, BasePrice(rows, row), Factors(rows, row))

EstimateAll(rows) == [i \in DOMAIN rows |-> Estimate(rows, rows[i])]

-----------------------------------------------------------------------------
\* POST /estimates: one vehicle that is not in the table.

\* Mutant: the band is left where the comparables are.
BandEdge_Unscaled(prices, k, factors) == 25 * Quantile(prices, k, 4)

\* The k-th quartile under the factors of the vehicle.
BandEdge(prices, k, factors) == Scaled(Quantile(prices, k, 4) \div 2, factors)

Single(base, factors) ==
  IF base = NoBasis THEN [est |-> NULL, basis |-> "none", sample |-> 0]
  ELSE [est |-> Scaled(Median2(base.prices), factors),
        low |-> BandEdge(base.prices, 1, factors),
        high |-> BandEdge(base.prices, 3, factors),
        basis |-> base.basis, sample |-> Len(base.prices)]

EstimateFor(rows, query) == Single(BasisOf(rows, query, FALSE), Factors(rows, query))

\* A band edge that rounds to nothing is replaced by the estimate itself.
Answered(made, asking) ==
  LET orEst(edge) == IF RoundDiv(edge, 100) = 0 THEN made.est ELSE edge
  IN IF made.est = NULL THEN [status |-> 422, reason |-> "no comparables"]
     ELSE [status |-> 200, est |-> made.est, basis |-> made.basis,
           low |-> orEst(made.low), high |-> orEst(made.high),
           diff |-> IF asking = NULL THEN NULL
                    ELSE ((100 * asking - made.est) * Thousand) \div made.est]

\* The service: an unknown trim is refused, the entry gives the model.
EstimateRequest(rows, entries, request) ==
  LET known == {e \in entries : e.category = request.category /\ e.trim = request.trim}
      entry == CHOOSE e \in known : TRUE
  IN IF known = {} THEN [status |-> 422, reason |-> "unknown trim"]
     ELSE Answered(EstimateFor(rows, Over(request, [model |-> entry.model])), request.asking)

=============================================================================
