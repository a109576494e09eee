CONSTANTS
  Ids = {1, 2, 3}
  Params = {"s", "x"}
  None = None
  k1 = k1
  Keys = {}
  KindOf <- KindsOfTheirOwn
  Callers = {1}
  MainCallers = {}
  Requests <- Joins
  Fallible = {}
  Unbuildable = {"x"}
  Lanes = {1, 2}
  MaxRequests = 3
  MaxCrashes = 1
  MaxFaults = 0
  MaxMishaps = 1
  EarlyRequests = TRUE
SPECIFICATION Spec
INVARIANT WaitingReleased
PROPERTY ImplementsLifecycle
CHECK_DEADLOCK FALSE
