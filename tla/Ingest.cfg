SPECIFICATION Spec
CONSTANTS
  NULL = NULL
  CatchAll <- MCCatchAll
  BodyFactors <- MCBodyFactors
  ESTIMATED_CATEGORIES <- MCEstimated
  MIN_COMPARABLES = 2
  HISTOGRAM_BUCKETS = 3
  TOP_DEALS = 2
  Files <- MCFiles
  MultiTokenBrands <- MCMultiTokenBrands
  MAX_REJECT_PERCENT = 50
  UPSERT_BATCH_SIZE = 2
  MIN_PLAUSIBLE_PRICE_TOMAN = 10
  MAX_PLAUSIBLE_KM = 1000
  MaxRuns = 3
INVARIANTS
  EstimatesCurrent
  CountsCurrentWhereUsed
  BulkMatchesQuery
  CheaperScoresNoWorse
  BandHoldsEstimate
  HistogramCountsAll
PROPERTIES
  Idempotent
