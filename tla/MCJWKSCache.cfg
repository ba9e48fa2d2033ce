SPECIFICATION MCSpec
CONSTANTS
  Calls = {c1, c2, c3}
  Kids = {k1}
  TtlSeconds = 1
  MaxTransit = 0
  MaxSkew = 1
  MaxTime = 4
INVARIANTS TypeOK UnknownMeansUnpublished
PROPERTIES RetiredKeysDie EveryGetEnds
