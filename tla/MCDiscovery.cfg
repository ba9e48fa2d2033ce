SPECIFICATION MCSpec
CONSTANTS
  o1 = o1
  o2 = o2
  e1 = e1
  Finds = {f1, f2}
  Orgs = {o1, o2}
  OrgKey <- MCOrgKey
  Events = {e1}
  NameOf <- MCNameOf
  Seasons = {"2025-26", "2026-27"}
  Queries <- MCQueries
  TtlSeconds = 1
  MaxTransit = 0
  MaxTime = 1
SYMMETRY Symmetry
PROPERTIES AnswersAreComplete
INVARIANTS TypeOK
