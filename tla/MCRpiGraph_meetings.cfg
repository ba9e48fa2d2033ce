SPECIFICATION GraphSpec
CONSTANTS
  Teams = {t1, t2, t3}
  None = None
  ScoreLines <- MCScoreLines
  MaxMatches = 3
SYMMETRY Symmetry
INVARIANTS ExcludesEveryMeeting
CHECK_DEADLOCK FALSE
