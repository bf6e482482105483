SPECIFICATION NoDbSpec
CONSTANTS
  GsbWeight = 50
  UrlhausWeight = 50
  CrossOriginBonus = 15
  HeuristicCap = 80
  ContentCap = 100
  FetchFailedScore = 15
  CautionThreshold = 31
  DangerThreshold = 61
  TotalCap = 100
  HeuristicScores <- MCHeuristicScores
  ContentResults <- MCContentResults
  TotalSeconds = 6
  UnchainSeconds = 4
  DomainSeconds = 4
  ContentSeconds = 5
  MinBudget = 1
  RdapSeconds = 4
  Margin = 2
  Cleanup = 1
  Urls <- MCUrls
  Labels <- MCLabels
  Brands <- MCBrands
  BrandLabels <- MCBrandLabels
  SuspiciousTlds = {"xyz", "work"}
  SuspiciousSuffixes = {"xyz"}
  SignalWeight <- MCSignalWeight
  MinFuzzyLen = 5
  MinDgaLen = 8
  Edits <- MCEdits
INVARIANTS
  WithinBudget
  FoundSignalsScore
  TypoIsExact
PROPERTIES
  ImplementsPipeline
  ImplementsContract
CHECK_DEADLOCK FALSE
