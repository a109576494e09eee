CONSTANTS
  Ids = {1, 2}
  Params = {"p", "q"}
  None = None
  k1 = k1
  Keys = {k1}
  KindOf <- OneKind
  Callers = {1, 2}
  MainCallers = {2}
  Requests <- Recurring
  Fallible = {"p"}
  Unbuildable = {}
  Lanes = {1}
  MaxRequests = 3
  MaxCrashes = 0
  MaxFaults = 0
  MaxMishaps = 1
  EarlyRequests = FALSE
SPECIFICATION FairSpec
INVARIANTS CronRowPending
PROPERTIES Recurs
CHECK_DEADLOCK FALSE
