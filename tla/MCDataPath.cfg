SPECIFICATION MCSpec
CONSTANTS
  overview = overview
  Calls = {c1, c2}
  Keys = {overview}
  LiveKeys = {}
  TtlSeconds = 2
  LiveTtlSeconds = 1
  MethodOf <- MCMethodOf
  Limits = {2}
  DelaySeconds = 1
  RequestSeconds = 1
  MaxTransit = 1
  MaxTime = 4
INVARIANTS TypeOK NoExpiredEntryDuringFetch EveryStoreIsKept
PROPERTIES KeepsPromise EveryReadEnds ImplementsCache
