SPECIFICATION MCSpec
CONSTANTS
  Calls = {c1, c2}
  Flights = {f1}
  TieWeights = {third, half, one}
  LiveTtlSeconds = 1
  RpiTtlSeconds = 2
  RpiCacheSize = 2
  MaxTransit = 1
  MaxTime = 3
SYMMETRY Symmetry
INVARIANTS TypeOK MemoBounded KeepsMostRecentlyUsed
PROPERTIES KeepsPromise
