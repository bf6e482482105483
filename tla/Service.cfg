SPECIFICATION ServiceSpec
CONSTANTS
  Jobs = {j1, j2}
  Results = {verdict, failure}
  NoResult = NoResult
  MaxAttempts = 2
  MaxCrashes = 1
  Clients = {rdap}
INVARIANTS
  DeliveredWasReceived
PROPERTIES
  ImplementsCallbackContract
  SilentAfterDelivery
  JobSettles
  ShutdownIsClean
CHECK_DEADLOCK FALSE
