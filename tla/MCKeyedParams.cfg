CONSTANTS
  Ids = {1, 2}
  Params = {"p", "q"}
  None = None
  k1 = k1
  Keys = {k1}
  KindOf <- OneKind
  Callers = {1, 2}
  MainCallers = {}
  Requests <- MCRequests
  Fallible = {}
  Unbuildable = {}
  Lanes = {1, 2}
  MaxRequests = 2
  MaxCrashes = 0
  MaxFaults = 0
  MaxMishaps = 1
  EarlyRequests = FALSE
SPECIFICATION Spec
INVARIANT RequestHonoured
CHECK_DEADLOCK FALSE
