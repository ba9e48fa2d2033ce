SPECIFICATION MCSpec
CONSTANTS
  Calls = {c1}
  Kids = {k1}
  NoKey = NoKey
  Tokens <- MCTokens
  TtlSeconds = 1
  LeewaySeconds = 1
  MaxTransit = 1
  MaxSkew = 1
  MaxTime = 1
INVARIANTS ReturnsNoneOnEveryFailure
