SPECIFICATION FairSpec
CONSTANTS
  GsbWeight = 50
  UrlhausWeight = 50
  CrossOriginBonus = 15
  HeuristicCap = 80
  ContentCap = 100
  FetchFailedScore = 15
  CautionThreshold = 31
  DangerThreshold = 61
  TotalCap = 100
  HeuristicScores <- MCHeuristicScores
  ContentResults <- MCContentResults
INVARIANTS
  AsIfSequential
  RaceFree
  NoTaskForgotten
  NoLateMatch
PROPERTIES
  ImplementsContract
  AnalysisEnds
CHECK_DEADLOCK FALSE
