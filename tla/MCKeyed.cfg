CONSTANTS
  Ids = {1, 2}
  Params = {"p"}
  None = None
  k1 = k1
  Keys = {k1}
  KindOf <- OneKind
  Callers = {1, 2}
  MainCallers = {}
  Requests <- MCRequests
  Fallible = {"p"}
  Unbuildable = {}
  Lanes = {1, 2}
  MaxRequests = 3
  MaxCrashes = 1
  MaxFaults = 1
  MaxMishaps = 1
  EarlyRequests = TRUE
SPECIFICATION Spec
INVARIANTS TypeOK OneBody QueueExclusive QueuedMetaSound PendingCared RequestHonoured RetryBudget
CHECK_DEADLOCK FALSE
