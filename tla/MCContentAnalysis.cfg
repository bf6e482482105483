SPECIFICATION Spec
CONSTANTS
  Analyses = {a1, a2}
  ExtractSlots = 1
  RenderSlots = 1
  Workers = 2
  Pages <- MCPages
  Weight <- MCWeight
  ContentCap = 100
  FetchFailedScore = 15
  PhishingWeight = 45
  SuspiciousWeight = 31
  PrecisionMinScore = 20
  DangerThreshold = 61
  MaxNodes = 3
  LinkTenths = 8
INVARIANTS
  SlotsAreHeld
  ResponsesAreClosed
  ScoreIsExplained
  RenderingHidesNothing
  CancelledStartsNothing
PROPERTIES
  ImplementsPools
  AnalysesEnd
CHECK_DEADLOCK FALSE
