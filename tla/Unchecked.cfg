SPECIFICATION Spec
CONSTANTS
  GsbWeight = 50
  UrlhausWeight = 50
  CrossOriginBonus = 15
  HeuristicCap = 80
  ContentCap = 100
  FetchFailedScore = 15
  CautionThreshold = 31
  DangerThreshold = 61
  TotalCap = 100
  HeuristicScores <- MCHeuristicScores
  ContentResults <- MCContentResults
INVARIANT UncheckedIsNotSafe
CHECK_DEADLOCK FALSE
