CONSTANTS
  a = a
  b = b
  Nodes = {a, b}
  Scenarios <- MCScenarios
  KeyIds = {k1, k2}
  FirstKey = k1
  Mail = {t1, t2}
  Forged = {t2}
  MaxRotations = 2
  MaxOutages = 1
  Jobs = {1, 2, 3}
  PriorityOf <- MCPriorityOf
  Panicking = {2}
  Threads = {1, 2}
  Serves <- MCServes
SPECIFICATION FedSpec
INVARIANTS Consented OneLiveOwn PenaltyDeserved
PROPERTIES EventuallyRests AcceptedSettles GenuineAccepted PoolDrains
CHECK_DEADLOCK FALSE
