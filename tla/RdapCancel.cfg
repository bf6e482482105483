SPECIFICATION Spec
CONSTANTS
  Callers = {c1, c2, c3}
  Domains = {d1, d2}
  Unencodable = {d2}
  NoCaller = NoCaller
  NoHeader = NoHeader
  RetryAfters <- MCRetryAfters
  DefaultCooldown = 1
  MaxCooldown = 2
INVARIANT CancelIsolated
CHECK_DEADLOCK FALSE
