SPECIFICATION FairCacheSpec
CONSTANTS
  Searchers = {s1, s2}
  MaxVersion = 2
  MaxGeneration = 2
  Faults <- EveryFault
  NoEntry = NoEntry
INVARIANTS CurrentEntryAtMostOneBehind
PROPERTIES AnswerAtMostOneBehind EventuallyFresh
