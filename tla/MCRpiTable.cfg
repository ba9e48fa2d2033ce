SPECIFICATION GraphSpec
CONSTANTS
  Teams = {t1, t2, t3, t4}
  None = None
  ScoreLines <- MCScoreLines
  MaxMatches = 4
  One = 1728
  WpTieParts = 576
  OwpTieParts = 864
  Unit = 1152
SYMMETRY Symmetry
INVARIANTS GraphTypeOK RecordCountsGames ExclusionNeverNegative GamesAreMirrored ExclusionIsExact TableIsTheFormula RanksFollowTheFormula
CHECK_DEADLOCK FALSE
