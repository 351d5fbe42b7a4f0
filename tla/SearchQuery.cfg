SPECIFICATION Spec
CONSTANTS
  NULL = NULL
  Distance <- MCDistance
  FreshnessDecay <- MCFreshnessDecay
  WordSimilarity <- MCWordSimilarity
  Listings <- MCListings
  Catalog <- MCCatalog
  Cities <- MCCities
  Queries <- MCQueries
  LLMIntents <- MCLLMIntents
  Overrides <- MCOverrides
  Words <- MCVocabulary
  Now = 9
  NewestYear = 1405
  MAX_CANDIDATES = 20
  MAX_RESULTS = 10
  SIMILAR_PRICE_SPREAD = 15
  MaxMemo = 1
INVARIANTS
  GuardRailsKeepNearMisses
  CloserNeverBelow
  FacetsAgreeWithSearch
