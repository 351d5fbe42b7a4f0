----------------------------- MODULE ModelStats -----------------------------
(***************************************************************************)
(* The market summary of one model: src/backend/ranking/model_stats.py and *)
(* the query behind it.  `rows` is the set of listings of the model, each  *)
(* [id, trim, year, price, score]; price is NULL when missing or suspect.  *)
(***************************************************************************)
EXTENDS Estimator

CONSTANTS HISTOGRAM_BUCKETS, TOP_DEALS

ASSUME StatsAssumption == HISTOGRAM_BUCKETS \in Nat \ {0} /\ TOP_DEALS \in Nat

PERCENTILE_STEPS == 20

-----------------------------------------------------------------------------
\* load_model_rows: the listings whose catalog entry names the model.
LoadModelRows(listings, estimates, model) ==
  {[id |-> i, trim |-> listings[i].trim, year |-> listings[i].year,
    price |-> IF estimates[i].suspect THEN NULL ELSE listings[i].price,
    score |-> estimates[i].score]
     : i \in {i \in DOMAIN listings : listings[i].model = model}}

\* Rows as ids, so that equal prices stay apart.
Priced(rows) == {r \in rows : r.price # NULL}
SortedPrices(rows) == SortedBy(Priced(rows), [r \in Priced(rows) |-> r.price])

\* The k-th cut point of quantiles(n, method="inclusive"), rounded.
Inclusive(sorted, k, n) ==
  LET position == k * (Len(sorted) - 1)
      j == position \div n
      delta == position % n
      upper == IF delta = 0 THEN sorted[j + 1] ELSE sorted[j + 2]
  IN RoundDiv(sorted[j + 1] * (n - delta) + upper * delta, n)

PercentileBounds(sorted) ==
  IF Len(sorted) < 2
    THEN [low |-> sorted[1], high |-> sorted[1]]
    ELSE [low |-> Inclusive(sorted, 1, PERCENTILE_STEPS),
          high |-> Inclusive(sorted, PERCENTILE_STEPS - 1, PERCENTILE_STEPS)]

\* Mutant: prices outside the percentiles fall off.
BucketOf_Unclamped(price, low, width) == (price - low) \div width

BucketOf(price, low, width) ==
  Clamp((price - low) \div width, 0, HISTOGRAM_BUCKETS - 1)

\* The bucket width is rounded up, and at least one.
BucketWidth(bounds) ==
  LET ceiling == -((bounds.low - bounds.high) \div HISTOGRAM_BUCKETS)
  IN IF ceiling < 1 THEN 1 ELSE ceiling

Buckets(sorted, low, width) ==
  [b \in 1..HISTOGRAM_BUCKETS |->
     [low |-> low + (b - 1) * width, high |-> low + b * width,
      count |-> Cardinality({k \in DOMAIN sorted : BucketOf(sorted[k], low, width) = b - 1})]]

Histogram(sorted) ==
  LET bounds == PercentileBounds(sorted)
  IN IF sorted = <<>> THEN <<>> ELSE Buckets(sorted, bounds.low, BucketWidth(bounds))

TrimStats(rows) ==
  {[trim |-> t, count |-> Cardinality({r \in rows : r.trim = t}),
    median |-> LET own == SortedPrices({r \in rows : r.trim = t})
               IN IF own = <<>> THEN NULL ELSE RoundDiv(Median2(own), 2)]
     : t \in {r.trim : r \in rows}}

\* The best deals, at most TOP_DEALS of them, best first, ids settle ties.
TopDeals(rows) ==
  LET scored == {r \in rows : r.score # NULL}
      place(r) == Cardinality({s \in scored : \/ s.score > r.score
                                              \/ s.score = r.score /\ s.id < r.id})
  IN {r \in scored : place(r) < TOP_DEALS}

Summarized(rows, sorted, years) ==
  [count |-> Cardinality(rows),
   years |-> IF years = {} THEN NULL ELSE <<Min(years), Max(years)>>,
   median |-> IF sorted = <<>> THEN NULL ELSE RoundDiv(Median2(sorted), 2),
   prices |-> IF sorted = <<>> THEN NULL ELSE <<sorted[1], sorted[Len(sorted)]>>,
   histogram |-> Histogram(sorted),
   trims |-> TrimStats(rows),
   top |-> TopDeals(rows)]

Summary(rows) == Summarized(rows, SortedPrices(rows), {r.year : r \in rows} \ {NULL})

\* get_stats: a model without a catalog entry is not found.
GetStats(listings, estimates, entries, model) ==
  IF \E e \in entries : e.model = model
    THEN Over([status |-> 200], Summary(LoadModelRows(listings, estimates, model)))
    ELSE [status |-> 404]
=============================================================================
