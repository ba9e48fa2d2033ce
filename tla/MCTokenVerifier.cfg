SPECIFICATION MCSpec
CONSTANTS
  Calls = {c1, c2}
  Kids = {k1}
  NoKey = NoKey
  TtlSeconds = 1
  Tokens <- MCTokens
  LeewaySeconds = 1
  MaxTransit = 1
  MaxSkew = 1
  MaxTime = 5
SYMMETRY Symmetry
INVARIANTS TypeOK
PROPERTIES AcceptedTokensAreGenuine RefusedForAReason
