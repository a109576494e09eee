CONSTANTS
  Ids = {1, 2}
  Params = {"p", "s"}
  None = None
  k1 = k1
  Keys = {k1}
  KindOf <- KindsOfTheirOwn
  Callers = {1}
  MainCallers = {}
  Requests <- Retried
  Fallible = {"p"}
  Unbuildable = {}
  Lanes = {1}
  MaxRequests = 1
  MaxCrashes = 1
  MaxFaults = 0
  MaxMishaps = 1
  EarlyRequests = FALSE
SPECIFICATION Spec
INVARIANT OnFailedAfterRetries
CHECK_DEADLOCK FALSE
