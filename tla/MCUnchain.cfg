SPECIFICATION Spec
CONSTANTS
  plain = plain
  secure = secure
  page = page
  other = other
  nohost = nohost
  NoUrl = NoUrl
  Urls <- MCUrls
  Https <- MCHttps
  Hostless <- MCHostless
  Domain <- MCDomain
  Twin <- MCTwin
  MaxHops = 3
INVARIANTS
  HopsAreAChain
  FinalIsExplained
  SignalsComeFromHops
  UnavailableIsFinal
PROPERTIES
  UnchainEnds
CHECK_DEADLOCK FALSE
