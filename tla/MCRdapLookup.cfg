SPECIFICATION FairSpec
CONSTANTS
  Callers = {c1, c2, c3}
  Domains = {d1, d2}
  Unencodable = {d2}
  NoCaller = NoCaller
  NoHeader = NoHeader
  RetryAfters <- MCRetryAfters
  DefaultCooldown = 1
  MaxCooldown = 2
INVARIANTS
  TypeOK
  SingleFlight
  NoLostWakeup
  LeakHasCulprit
  CacheIsFetched
PROPERTIES
  ImplementsSharing
  LookupEnds
CHECK_DEADLOCK FALSE
