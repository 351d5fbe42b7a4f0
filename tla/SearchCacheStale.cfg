SPECIFICATION CacheSpec
CONSTANTS
  Searchers = {s1, s2}
  MaxVersion = 2
  MaxGeneration = 2
  Faults <- NoFaults
  NoEntry = NoEntry
PROPERTIES NoStaleAnswer
